---- MODULE Spec2Model ----
(***************************************************************************)
(* Model of the CLI-backed task orchestrator of rust-desktop-app-template: *)
(* the streaming chat command (tauri/commands.rs), the backend selection   *)
(* and stdout trailer parsing of the AI service (services/ai.rs).          *)
(*                                                                         *)
(* Strings are sequences of Unicode scalar values (code points); their     *)
(* UTF-8 byte length is computed from the code points, because the code    *)
(* mixes `chars()` (scalar values) with `len()` and `[..n]` (bytes).       *)
(***************************************************************************)
EXTENDS Integers, Sequences, FiniteSets, TLC

\* ------------------------------------------------------------------------
\* Bounds of the model
\* ------------------------------------------------------------------------
\* number of streaming requests that are accepted in one behaviour
MaxRequests == 2
\* longest message that is handed directly to the streaming loop (EmitterSpec)
MaxStreamChars == 66
\* most entries AiService::models grows to
MaxModels == 5
\* longest message part of a composed stdout (ParseSpec)
MaxMsgLen == 4

\* number of append_message_to_session calls in one behaviour
MaxAppends == 3

\* number of file operations that fail in one behaviour
MaxFaults == 1

\* bytes a pipe between the runner and its child holds before a write to it
\* blocks, and the largest task and the largest output of a child, in bytes
PipeCapacity == 2
MaxTaskBytes == 3
MaxOutBytes == 3

\* number of TerminalService calls in one behaviour
MaxTermCalls == 3

\* length of the texts given to tail_snippet, and the largest budget
MaxTailLen == 4
MaxTailBudget == 3

\* ------------------------------------------------------------------------
\* Strings
\* ------------------------------------------------------------------------
None == [some |-> FALSE, v |-> <<>>]
Some(x) == [some |-> TRUE, v |-> x]

\* UTF-8 width of one scalar value (char::len_utf8)
Utf8Len(c) == IF c < 128 THEN 1 ELSE IF c < 2048 THEN 2 ELSE IF c < 65536 THEN 3 ELSE 4

\* String::len / str::len: the length in BYTES (sum of the UTF-8 widths)
\* (the widths of s[lo..hi] are summed by counting: one byte for each
\* scalar value, one more for each that needs two, three, four bytes)
BytesIn(s, lo, hi) ==
    (IF lo > hi THEN 0 ELSE hi - lo + 1)
    + Cardinality({ i \in lo..hi : Utf8Len(s[i]) >= 2 })
    + Cardinality({ i \in lo..hi : Utf8Len(s[i]) >= 3 })
    + Cardinality({ i \in lo..hi : Utf8Len(s[i]) >= 4 })

BytesUpTo(s, k) == BytesIn(s, 1, k)

ByteLen(s) == BytesUpTo(s, Len(s))

\* n copies of the scalar value c
Rep(c, n) == [i \in 1..n |-> c]

\* number of leading scalar values of s that fit entirely in the first n
\* bytes: how many of s[lo..hi], taken from lo on, fit in `left` bytes,
\* found by halves
RECURSIVE CharsWithinFrom(_, _, _, _)
CharsWithinFrom(s, lo, hi, left) ==
    IF lo > hi THEN 0
    ELSE IF lo = hi THEN (IF Utf8Len(s[lo]) <= left THEN 1 ELSE 0)
    ELSE LET mid == (lo + hi) \div 2
             first == BytesIn(s, lo, mid)
         IN  IF first <= left
             THEN (mid - lo + 1) + CharsWithinFrom(s, mid + 1, hi, left - first)
             ELSE CharsWithinFrom(s, lo, mid, left)

CharsWithin(s, n) == CharsWithinFrom(s, 1, Len(s), n)

\* str::is_char_boundary(n) for n <= len
IsCharBoundary(s, n) == BytesUpTo(s, CharsWithin(s, n)) = n

\* &s[..n]: the byte slice; it panics unless IsCharBoundary(s, n)
SliceTo(s, n) == SubSeq(s, 1, CharsWithin(s, n))

\* literals of tauri/commands.rs
Literal ==
    [ base_prefix |->
         <<65, 73, 32, 82, 101, 115, 112, 111, 110, 115, 101, 58, 32, 82, 101, 99, 101, 105, 118, 101, 100, 32, 121, 111, 117, 114, 32, 109, 101, 115, 115, 97, 103, 101, 32, 97, 98, 111, 117, 116, 32, 39>>,
      base_suffix |-> <<39, 46>>,
      assoc_header |->
         <<10, 10, 65, 115, 115, 111, 99, 105, 97, 116, 101, 100, 32, 102, 105, 108, 101, 115, 32, 40, 112, 114, 101, 118, 105, 101, 119, 41, 58, 10>>,
      read_failed_open |-> <<32, 40, 35835, 21462, 22833, 36133, 58, 32>>,
      read_task_failed |->
         <<32, 40, 35835, 21462, 20219, 21153, 22833, 36133, 41>>,
      ellipsis |-> <<46, 46, 46>>,
      ai_error_prefix |-> <<91, 65, 73, 32, 38169, 35823, 93, 32>> ]

\* ------------------------------------------------------------------------
\* Program constants
\* ------------------------------------------------------------------------
\* `if buffer.len() >= 32 || is_last`
FlushThreshold == 32
\* `if message.len() > 50 { &message[..50] }`
MessageEchoLimit == 50
\* `let snippet_limit: usize = 200;`
SnippetLimit == 200
\* `files.iter().take(8)`
MaxContextFiles == 8

\* ------------------------------------------------------------------------
\* State
\* ------------------------------------------------------------------------
VARIABLES
    pc,               \* position of each request's background task
    msg,              \* `message` argument of each accepted request
    ctx,              \* `context_files` argument of each accepted request
    result,           \* what `send_chat_message(..).await` gave the task
    idx,              \* number of scalar values the loop has consumed
    buffer,           \* `buffer` of the streaming loop
    emitted,          \* per request: the emit_ai_response calls, in call order
    returned,         \* request ids handed back to the caller
    streaming_tasks,  \* AppState::streaming_tasks (set of registered ids)
    cancel_requested  \* ids for which the caller asked for cancellation

streamVars == <<pc, msg, ctx, result, idx, buffer, emitted, returned,
                streaming_tasks, cancel_requested>>

RequestIds == 1..MaxRequests

\* ------------------------------------------------------------------------
\* send_chat_message (tauri/commands.rs)
\* ------------------------------------------------------------------------
Min(a, b) == IF a < b THEN a ELSE b

RECURSIVE Join(_, _)
Join(parts, sep) ==
    IF parts = <<>> THEN <<>>
    ELSE IF Len(parts) = 1 THEN parts[1]
    ELSE parts[1] \o sep \o Join(Tail(parts), sep)

\* `&content[..snippet_limit]` panics when byte 200 is inside a scalar value
PreviewPanics(rr) ==
    /\ rr.tag = "Ok"
    /\ ByteLen(rr.v) > SnippetLimit
    /\ ~IsCharBoundary(rr.v, SnippetLimit)

\* one entry of file_summaries for a context file and the result of reading it
FileSummary(path, rr) ==
    CASE rr.tag = "Ok" ->
            <<45, 32>> \o path \o <<10>> \o
            (IF ByteLen(rr.v) > SnippetLimit
                THEN SliceTo(rr.v, SnippetLimit) \o Literal.ellipsis
                ELSE rr.v)
      [] rr.tag = "Err" ->
            <<45, 32>> \o path \o Literal.read_failed_open \o rr.v \o <<41>>
      [] OTHER ->
            <<45, 32>> \o path \o Literal.read_task_failed

\* The value of send_chat_message(message, context_files), where reads[i] is
\* what reading the i-th context file gives.  The function has no `Err`
\* return; it either returns Ok(response) or panics on a byte slice.
send_chat_message(message, context_files, reads) ==
    LET files == IF context_files.some
                    THEN SubSeq(context_files.v, 1,
                                Min(MaxContextFiles, Len(context_files.v)))
                    ELSE <<>>
        file_summaries == [i \in 1..Len(files) |-> FileSummary(files[i], reads[i])]
        base == Literal.base_prefix \o
                (IF ByteLen(message) > MessageEchoLimit
                    THEN SliceTo(message, MessageEchoLimit)
                    ELSE message) \o
                Literal.base_suffix
        response == IF file_summaries = <<>>
                       THEN base
                       ELSE base \o Literal.assoc_header \o Join(file_summaries, <<10, 10>>)
    IN  IF \/ \E i \in 1..Len(files) : PreviewPanics(reads[i])
           \/ /\ ByteLen(message) > MessageEchoLimit
              /\ ~IsCharBoundary(message, MessageEchoLimit)
        THEN [tag |-> "Panic", v |-> <<>>]
        ELSE [tag |-> "Ok", v |-> response]

\* ------------------------------------------------------------------------
\* Inputs
\* ------------------------------------------------------------------------
\* sixty 'a' (cut to 50 bytes), ten U+4E2D (30 bytes), seventeen U+4E2D
\* (51 bytes, byte 50 inside the last scalar value)
ChatMessages == { Rep(97, 60), Rep(20013, 10), Rep(20013, 17) }

\* reading a context file: its content "x", or the error text "e"
ReadResults == { [tag |-> "Ok", v |-> <<120>>], [tag |-> "Err", v |-> <<101>>] }

\* what `send_chat_message(..).await` may evaluate to by its type
\* Result<String, String>: any message of one repeated scalar value of each
\* UTF-8 width ('a', U+00E9, U+4E2D, U+1F600), or an error text
BuildOutcomes ==
    { [tag |-> "Ok", v |-> Rep(c, n)] :
        c \in {97, 233, 20013, 128512}, n \in 0..MaxStreamChars }
    \cup { [tag |-> "Err", v |-> <<101>>], [tag |-> "Err", v |-> <<>>] }

\* ------------------------------------------------------------------------
\* The event sink
\* ------------------------------------------------------------------------
\* A call emit_ai_response(&app_handle, &request_id, &delta, is_final) as
\* the command makes it: the event is made of the three values the caller
\* passes (no continuation identifier is among them); `ok` is whether the
\* sink accepted it (the call returns Err otherwise).
\* an emitter that tags every event with the id of the first request
emit_ai_response_FirstId(log, request_id, response, is_final, ok) ==
    Append(log, [request_id |-> 1, response |-> response,
                 is_final |-> is_final, delivered |-> ok])

emit_ai_response(log, request_id, response, is_final, ok) ==
    Append(log, [request_id |-> request_id, response |-> response,
                 is_final |-> is_final, delivered |-> ok])

\* ------------------------------------------------------------------------
\* send_chat_message_streaming (tauri/commands.rs)
\* ------------------------------------------------------------------------
Pending == [tag |-> "Pending", v |-> <<>>]

\* `chars`: the scalar values of full_response
chars(r) == result[r].v

\* The loop body from the current position up to the next flush: push one
\* scalar value at a time, flush when the buffer holds 32 BYTES or more
\* (`buffer.len()`, kept in `bytes`) or the last scalar value has been
\* pushed.  Requires i < Len(cs).
RECURSIVE FlushFrom(_, _, _, _)
FlushFrom(cs, i, buf, bytes) ==
    LET buf2 == Append(buf, cs[i + 1])
        bytes2 == bytes + Utf8Len(cs[i + 1])
        is_last == (i + 1 = Len(cs))
    IN  IF bytes2 >= FlushThreshold \/ is_last
        THEN [idx |-> i + 1, delta |-> buf2, is_last |-> is_last]
        ELSE FlushFrom(cs, i + 1, buf2, bytes2)

\* a loop that forgets `buffer.clear()`
BufferAfterFlush_NotCleared(delta) == delta

\* `buffer.clear()` after the delta was cloned
BufferAfterFlush(delta) == <<>>

\* the text of the event of the Err arm: format!("[AI 错误] {}", e)
ErrorEventText(e) == Literal.ai_error_prefix \o e

\* an Err arm that does not mark its event final
ErrArmEmit_NotFinal(log, r, e, ok) == emit_ai_response(log, r, ErrorEventText(e), FALSE, ok)

\* the Err arm: one emit, final, its result ignored (`let _ =`)
ErrArmEmit(log, r, e, ok) == emit_ai_response(log, r, ErrorEventText(e), TRUE, ok)

\* The command itself: generate the id, spawn the background task, return
\* the id at once.  The JoinHandle of the task is dropped and nothing is
\* put into AppState::streaming_tasks.
send_chat_message_streaming(message, context_files) ==
    /\ \E r \in RequestIds : r \notin returned
    /\ LET r == CHOOSE q \in RequestIds : q \notin returned IN
        /\ pc[r] = "idle"
        /\ pc' = [pc EXCEPT ![r] = "spawned"]
        /\ msg' = [msg EXCEPT ![r] = message]
        /\ ctx' = [ctx EXCEPT ![r] = context_files]
        /\ returned' = returned \cup {r}
    /\ UNCHANGED <<result, idx, buffer, emitted, streaming_tasks, cancel_requested>>

\* `match send_chat_message(msg, ctx_files).await { Ok(..) => .., Err(e) => .. }`
\* for the value `res`; a panic of the callee unwinds the task.
TaskMatch(r, res) ==
    /\ pc[r] = "spawned"
    /\ result' = [result EXCEPT ![r] = res]
    /\ CASE res.tag = "Ok" ->
              /\ pc' = [pc EXCEPT ![r] = "streaming"]
              /\ idx' = [idx EXCEPT ![r] = 0]
              /\ buffer' = [buffer EXCEPT ![r] = <<>>]
              /\ UNCHANGED emitted
         [] res.tag = "Err" ->
              /\ pc' = [pc EXCEPT ![r] = "errored"]
              /\ \E ok \in BOOLEAN :
                    emitted' = [emitted EXCEPT ![r] = ErrArmEmit(@, r, res.v, ok)]
              /\ UNCHANGED <<idx, buffer>>
         [] OTHER ->
              /\ pc' = [pc EXCEPT ![r] = "panicked"]
              /\ UNCHANGED <<idx, buffer, emitted>>
    /\ UNCHANGED <<msg, ctx, returned, streaming_tasks, cancel_requested>>

\* the background task awaits the response built from its own arguments
TaskBuild(r) ==
    /\ pc[r] = "spawned"
    /\ LET n == IF ctx[r].some THEN Min(MaxContextFiles, Len(ctx[r].v)) ELSE 0 IN
        \E reads \in [1..n -> ReadResults] :
            TaskMatch(r, send_chat_message(msg[r], ctx[r], reads))

\* the loop runs up to its next flush and emits the delta; an emit error
\* breaks out of the loop, otherwise the task sleeps 60 ms
StreamFlush(r) ==
    /\ pc[r] = "streaming"
    /\ idx[r] < Len(chars(r))
    /\ LET f == FlushFrom(chars(r), idx[r], buffer[r], ByteLen(buffer[r])) IN
        /\ idx' = [idx EXCEPT ![r] = f.idx]
        /\ buffer' = [buffer EXCEPT ![r] = BufferAfterFlush(f.delta)]
        /\ \E ok \in BOOLEAN :
              /\ emitted' = [emitted EXCEPT ![r] =
                                emit_ai_response(@, r, f.delta, f.is_last, ok)]
              /\ pc' = [pc EXCEPT ![r] = IF ok THEN "streaming" ELSE "done"]
    /\ UNCHANGED <<msg, ctx, result, returned, streaming_tasks, cancel_requested>>

\* the iterator is exhausted: the task ends
StreamEnd(r) ==
    /\ pc[r] = "streaming"
    /\ idx[r] = Len(chars(r))
    /\ pc' = [pc EXCEPT ![r] = "done"]
    /\ UNCHANGED <<msg, ctx, result, idx, buffer, emitted, returned,
                   streaming_tasks, cancel_requested>>

\* Cancelling a request by id: look the id up in AppState::streaming_tasks,
\* abort the task behind the handle and drop the entry.  A task that is not
\* registered cannot be reached.
cancel_streaming(r) ==
    /\ r \in returned
    /\ r \notin cancel_requested
    /\ cancel_requested' = cancel_requested \cup {r}
    /\ IF r \in streaming_tasks
          THEN /\ streaming_tasks' = streaming_tasks \ {r}
               /\ pc' = [pc EXCEPT ![r] =
                            IF @ \in {"spawned", "streaming"} THEN "aborted" ELSE @]
          ELSE UNCHANGED <<streaming_tasks, pc>>
    /\ UNCHANGED <<msg, ctx, result, idx, buffer, emitted, returned>>

StreamInit ==
    /\ pc = [r \in RequestIds |-> "idle"]
    /\ msg = [r \in RequestIds |-> <<>>]
    /\ ctx = [r \in RequestIds |-> None]
    /\ result = [r \in RequestIds |-> Pending]
    /\ idx = [r \in RequestIds |-> 0]
    /\ buffer = [r \in RequestIds |-> <<>>]
    /\ emitted = [r \in RequestIds |-> <<>>]
    /\ returned = {}
    /\ streaming_tasks = {}      \* AppState::new: HashMap::new()
    /\ cancel_requested = {}

\* The streaming loop alone, for every value its callee's type admits:
\* request 1 has been accepted and its task awaits send_chat_message.
EmitterStreamInit ==
    /\ pc = [r \in RequestIds |-> IF r = 1 THEN "spawned" ELSE "idle"]
    /\ msg = [r \in RequestIds |-> <<>>]
    /\ ctx = [r \in RequestIds |-> None]
    /\ result = [r \in RequestIds |-> Pending]
    /\ idx = [r \in RequestIds |-> 0]
    /\ buffer = [r \in RequestIds |-> <<>>]
    /\ emitted = [r \in RequestIds |-> <<>>]
    /\ returned = {1}
    /\ streaming_tasks = {}
    /\ cancel_requested = {}

\* ------------------------------------------------------------------------
\* AiService: models, configuration and backend selection (services/ai.rs)
\* ------------------------------------------------------------------------
VARIABLES
    models,         \* AiService::models, the names in Vec order
    current_model,  \* AiService::current_model
    codeagent,      \* AiService::codeagent (the backend field)
    last_call       \* the latest send_message_with_options: inputs and the
                    \* backend put into the CodeagentRunSpec

aiVars == <<models, current_model, codeagent, last_call>>

\* char::is_whitespace for the scalar values that occur in the model
IsWhitespace(c) == c \in {9, 10, 11, 12, 13, 32, 133, 160}

\* str::to_lowercase; the strings of the model are ASCII
LowerChar(c) == IF c >= 65 /\ c <= 90 THEN c + 32 ELSE c

to_lowercase(s) == [i \in 1..Len(s) |-> LowerChar(s[i])]

RECURSIVE trim_start(_)
trim_start(s) ==
    IF s # <<>> /\ IsWhitespace(Head(s)) THEN trim_start(Tail(s)) ELSE s

RECURSIVE trim_end(_)
trim_end(s) ==
    IF s # <<>> /\ IsWhitespace(s[Len(s)])
    THEN trim_end(SubSeq(s, 1, Len(s) - 1)) ELSE s

\* str::trim
trim(s) == trim_end(trim_start(s))

\* str::contains(pat)
contains(s, pat) ==
    \E i \in 1..(Len(s) - Len(pat) + 1) : SubSeq(s, i, i + Len(pat) - 1) = pat

BackendName ==
    [ claude |-> <<99, 108, 97, 117, 100, 101>>,
      gemini |-> <<103, 101, 109, 105, 110, 105>>,
      codex |-> <<99, 111, 100, 101, 120>> ]

\* AiService::derive_backend_from_current_model
derive_backend_from_current_model(cur) ==
    LET model == IF cur.some THEN cur.v ELSE <<>>
        m == to_lowercase(model)
    IN  IF contains(m, BackendName.claude) THEN BackendName.claude
        ELSE IF contains(m, BackendName.gemini) THEN BackendName.gemini
        ELSE BackendName.codex

\* a hint matcher that compares without lower-casing
derive_backend_from_code_cli_CaseSensitive(code_cli) ==
    LET v == trim(code_cli)
    IN  IF v = <<>> THEN None
        ELSE IF contains(v, BackendName.claude) THEN Some(BackendName.claude)
        ELSE IF contains(v, BackendName.gemini) THEN Some(BackendName.gemini)
        ELSE IF contains(v, BackendName.codex) THEN Some(BackendName.codex)
        ELSE None

\* AiService::derive_backend_from_code_cli
derive_backend_from_code_cli(code_cli) ==
    LET v == to_lowercase(trim(code_cli))
    IN  IF v = <<>> THEN None
        ELSE IF contains(v, BackendName.claude) THEN Some(BackendName.claude)
        ELSE IF contains(v, BackendName.gemini) THEN Some(BackendName.gemini)
        ELSE IF contains(v, BackendName.codex) THEN Some(BackendName.codex)
        ELSE None

\* the `backend` of send_message_with_options:
\* codeagent.backend.or_else(code_cli.and_then(derive..)).unwrap_or_else(derive..)
SelectBackend(explicit, code_cli, cur) ==
    IF explicit.some THEN explicit.v
    ELSE LET hinted == IF code_cli.some
                          THEN derive_backend_from_code_cli(code_cli.v)
                          ELSE None
         IN  IF hinted.some THEN hinted.v
             ELSE derive_backend_from_current_model(cur)

\* the models of AiService::new
InitialModels ==
    << <<99, 108, 97, 117, 100, 101, 45, 51, 45, 53, 45, 115, 111, 110, 110, 101, 116>>,
       <<103, 112, 116, 45, 52>>,
       <<103, 112, 116, 45, 51, 46, 53, 45, 116, 117, 114, 98, 111>>,
       <<103, 101, 109, 105, 110, 105, 45, 112, 114, 111>> >>

\* model added by the caller: "Gemini-Ultra"
AddableModels == { <<71, 101, 109, 105, 110, 105, 45, 85, 108, 116, 114, 97>> }

\* names the caller selects: the known ones and "foo"
ModelNameInputs ==
    { InitialModels[i] : i \in 1..Len(InitialModels) } \cup AddableModels
        \cup { <<102, 111, 111>> }

\* codeagent.backend of a new configuration: absent, the three names, "",
\* and "foo"
BackendInputs ==
    { None, Some(BackendName.claude), Some(BackendName.gemini), Some(BackendName.codex), Some(<<>>),
      Some(<<102, 111, 111>>) }

\* options.code_cli: absent, "claude-cli", "Gemini-CLI", " CODEX ", "", "  ",
\* "foo", "gemini+Claude"
HintInputs ==
    { None,
      Some(<<99, 108, 97, 117, 100, 101, 45, 99, 108, 105>>),
      Some(<<71, 101, 109, 105, 110, 105, 45, 67, 76, 73>>),
      Some(<<32, 67, 79, 68, 69, 88, 32>>),
      Some(<<>>),
      Some(<<32, 32>>),
      Some(<<102, 111, 111>>),
      Some(<<103, 101, 109, 105, 110, 105, 43, 67, 108, 97, 117, 100, 101>>) }

NoCall == [called |-> FALSE, explicit |-> None, hint |-> None,
           model |-> None, backend |-> <<>>]

\* AiService::set_codeagent_config
set_codeagent_config(backend) ==
    /\ codeagent' = [backend |-> backend]
    /\ UNCHANGED <<models, current_model, last_call>>

\* AiService::set_current_model: only a name found in `models` is taken
set_current_model(model) ==
    /\ IF \E i \in 1..Len(models) : models[i] = model
          THEN current_model' = Some(model)
          ELSE UNCHANGED current_model
    /\ UNCHANGED <<models, codeagent, last_call>>

\* AiService::add_model
add_model(name) ==
    /\ Len(models) < MaxModels
    /\ models' = Append(models, name)
    /\ UNCHANGED <<current_model, codeagent, last_call>>

\* AiService::remove_model
remove_model(name) ==
    /\ models' = SelectSeq(models, LAMBDA m : m # name)
    /\ UNCHANGED <<current_model, codeagent, last_call>>

\* AiService::send_message_with_options up to the CodeagentRunSpec it hands
\* to run_codeagent_wrapper
send_message_with_options(code_cli) ==
    /\ last_call' = [called |-> TRUE,
                     explicit |-> codeagent.backend,
                     hint |-> code_cli,
                     model |-> current_model,
                     backend |-> SelectBackend(codeagent.backend, code_cli,
                                               current_model)]
    /\ UNCHANGED <<models, current_model, codeagent>>

\* AiService::new
AiInit ==
    /\ models = InitialModels
    /\ current_model = Some(InitialModels[1])
    /\ codeagent = [backend |-> None]
    /\ last_call = NoCall

\* ------------------------------------------------------------------------
\* Trailer parser (services/ai.rs)
\* ------------------------------------------------------------------------
VARIABLES
    parse_in,   \* how the child's stdout was composed
    stdout,     \* the child's stdout
    parse_out   \* what parse_codeagent_stdout returned for it

parseVars == <<parse_in, stdout, parse_out>>

\* "\n---\nSESSION_ID:", "---\nSESSION_ID:" and "SESSION_ID:"
Marker ==
    [ rule_before |->
         <<10, 45, 45, 45, 10, 83, 69, 83, 83, 73, 79, 78, 95, 73, 68, 58>>,
      rule_start |->
         <<45, 45, 45, 10, 83, 69, 83, 83, 73, 79, 78, 95, 73, 68, 58>>,
      bare |-> <<83, 69, 83, 83, 73, 79, 78, 95, 73, 68, 58>> ]

\* str::replace("\r\n", "\n"): the matches cannot overlap, so the result is
\* s[lo..hi] without every "\r" that the next scalar value of s, a "\n",
\* follows; it is put together by halves
RECURSIVE ReplaceCrlfFrom(_, _, _)
ReplaceCrlfFrom(s, lo, hi) ==
    IF lo > hi THEN <<>>
    ELSE IF lo = hi
         THEN IF s[lo] = 13 /\ lo < Len(s) /\ s[lo + 1] = 10
              THEN <<>> ELSE <<s[lo]>>
    ELSE LET mid == (lo + hi) \div 2
         IN  ReplaceCrlfFrom(s, lo, mid) \o ReplaceCrlfFrom(s, mid + 1, hi)

replace_crlf(s) == ReplaceCrlfFrom(s, 1, Len(s))

\* positions (1-based) at which pat occurs in s
Occurrences(s, pat) ==
    { i \in 1..(Len(s) - Len(pat) + 1) : SubSeq(s, i, i + Len(pat) - 1) = pat }

\* a search that stops at the first occurrence
rfind_First(s, pat) ==
    LET occ == Occurrences(s, pat)
    IN  IF occ = {} THEN None
        ELSE Some((CHOOSE i \in occ : \A j \in occ : i <= j) - 1)

\* str::rfind(pat): the number of scalar values before the last occurrence
rfind(s, pat) ==
    LET occ == Occurrences(s, pat)
    IN  IF occ = {} THEN None
        ELSE Some((CHOOSE i \in occ : \A j \in occ : j <= i) - 1)

\* str::lines().next(): the text up to the first "\n", without the "\r" of
\* a "\r\n"; absent for the empty string
first_line(s) ==
    IF s = <<>> THEN None
    ELSE LET nl == { i \in 1..Len(s) : s[i] = 10 }
         IN  IF nl = {} THEN Some(s)
             ELSE LET k == CHOOSE i \in nl : \A j \in nl : i <= j
                      line == SubSeq(s, 1, k - 1)
                  IN  IF line # <<>> /\ line[Len(line)] = 13
                      THEN Some(SubSeq(line, 1, Len(line) - 1))
                      ELSE Some(line)

\* str::trim_start_matches(c)
RECURSIVE trim_start_matches(_, _)
trim_start_matches(s, c) ==
    IF s # <<>> /\ Head(s) = c THEN trim_start_matches(Tail(s), c) ELSE s

\* str::trim_end_matches(c)
RECURSIVE trim_end_matches(_, _)
trim_end_matches(s, c) ==
    IF s # <<>> /\ s[Len(s)] = c
    THEN trim_end_matches(SubSeq(s, 1, Len(s) - 1), c) ELSE s

\* an identifier taken from all of the tail instead of its first line
session_id_after_WholeTail(tail, strip_colon) ==
    LET t == trim(tail)
        u == IF strip_colon THEN trim(trim_start_matches(t, 58)) ELSE t
    IN  IF tail = <<>> \/ u = <<>> THEN None ELSE Some(u)

\* tail.lines().next().map(..).filter(|s| !s.is_empty()): the identifier
\* after the key; the two "---" markers also drop leading ':'
session_id_after(tail, strip_colon) ==
    LET line == first_line(tail)
    IN  IF ~line.some THEN None
        ELSE LET t == trim(line.v)
                 u == IF strip_colon THEN trim(trim_start_matches(t, 58)) ELSE t
             IN  IF u = <<>> THEN None ELSE Some(u)

\* a last branch that returns the text as it is
NoMarkerResult_Untrimmed(normalized) ==
    [message |-> normalized, session_id |-> None]

\* the last branch: (normalized.trim().to_string(), None)
NoMarkerResult(normalized) ==
    [message |-> trim(normalized), session_id |-> None]

\* parse_codeagent_stdout
parse_codeagent_stdout(out) ==
    LET normalized == replace_crlf(out)
        i1 == rfind(normalized, Marker.rule_before)
        i2 == rfind(normalized, Marker.rule_start)
        i3 == rfind(normalized, Marker.bare)
        after(i, m) == SubSeq(normalized, i + Len(m) + 1, Len(normalized))
    IN  IF i1.some
        THEN [message |-> trim(SubSeq(normalized, 1, i1.v)),
              session_id |-> session_id_after(after(i1.v, Marker.rule_before), TRUE)]
        ELSE IF i2.some
        THEN [message |-> trim(SubSeq(normalized, 1, i2.v)),
              session_id |-> session_id_after(after(i2.v, Marker.rule_start), TRUE)]
        ELSE IF i3.some
        THEN [message |-> trim(trim_end_matches(SubSeq(normalized, 1, i3.v), 45)),
              session_id |-> session_id_after(after(i3.v, Marker.bare), FALSE)]
        ELSE NoMarkerResult(normalized)

\* the text of a composed stdout: the message, then (forms 1 to 3) the
\* marker, the padding, the identifier token and the rest, then (form2 1 to
\* 3) a second marker and its token
ComposeStdout(in) ==
    LET nl == IF in.crlf THEN <<13, 10>> ELSE <<10>>
        marker(f) == CASE f = 1 -> nl \o <<45, 45, 45>> \o nl \o Marker.bare
                       [] f = 2 -> <<45, 45, 45>> \o nl \o Marker.bare
                       [] OTHER -> Marker.bare
        rest == IF in.more = 0 THEN <<>>
                ELSE IF in.more = 1 THEN nl
                ELSE nl \o <<122>>
        second == IF in.form2 = 0 THEN <<>>
                  ELSE marker(in.form2) \o in.token2
    IN  IF in.form = 0 THEN in.msg
        ELSE in.msg \o marker(in.form) \o in.pad \o in.token \o rest \o second

\* messages: every text of up to MaxMsgLen of 'a', '-', ' ', "\n", "\r",
\* and "Done."
ParseMessages ==
    UNION { [1..n -> {97, 45, 32, 10, 13}] : n \in 0..MaxMsgLen }
        \cup { <<68, 111, 110, 101, 46>> }

\* stdouts with one trailer (the identifier tokens "abc123" and ":x"),
\* with no trailer, with two trailers (after
\* "a" and "Done.", the second identifier being "b7"), and with a key line
\* that holds nothing, "ab c" or ":" after the key
ParseInputs ==
    [msg : ParseMessages, form : 1..3, crlf : BOOLEAN,
     pad : { <<>>, <<32>> },
     token : { <<97, 98, 99, 49, 50, 51>>, <<58, 120>> }, more : 0..2,
     form2 : {0}, token2 : { <<>> }]
    \cup [msg : ParseMessages, form : {0}, crlf : {FALSE},
          pad : { <<>> }, token : { <<>> }, more : {0},
          form2 : {0}, token2 : { <<>> }]
    \cup [msg : { <<97>>, <<68, 111, 110, 101, 46>> }, form : 1..3,
          crlf : BOOLEAN, pad : { <<>> },
          token : { <<97, 98, 99, 49, 50, 51>> }, more : 0..2,
          form2 : 1..3, token2 : { <<98, 55>> }]
    \cup [msg : { <<68, 111, 110, 101, 46>> }, form : 1..3,
          crlf : BOOLEAN, pad : { <<>>, <<32>> },
          token : { <<>>, <<97, 98, 32, 99>>, <<58>> }, more : 0..2,
          form2 : {0}, token2 : { <<>> }]

NotParsed == [done |-> FALSE, message |-> <<>>, session_id |-> None]

NoStdout == [msg |-> <<>>, form |-> 0, crlf |-> FALSE, pad |-> <<>>,
             token |-> <<>>, more |-> 0, form2 |-> 0, token2 |-> <<>>]

\* the parser is applied to the stdout
ParseStdout ==
    /\ ~parse_out.done
    /\ LET p == parse_codeagent_stdout(stdout)
       IN  parse_out' = [done |-> TRUE, message |-> p.message,
                         session_id |-> p.session_id]
    /\ UNCHANGED <<parse_in, stdout>>

\* no stdout under consideration
ParseIdle ==
    /\ parse_in = NoStdout
    /\ stdout = <<>>
    /\ parse_out = NotParsed

\* some child has written a stdout
ParseAnyInit ==
    /\ parse_in \in ParseInputs
    /\ stdout = ComposeStdout(parse_in)
    /\ parse_out = NotParsed

\* ------------------------------------------------------------------------
\* Executable resolver (services/ai.rs, tauri/codeagent_commands.rs)
\* ------------------------------------------------------------------------
\* results of fallible calls; a panic unwinds the caller
Ok(x) == [tag |-> "Ok", v |-> x]
Err(e) == [tag |-> "Err", v |-> e]
Panic == [tag |-> "Panic", v |-> <<>>]

\* "codeagent-wrapper", the program name of the builds that are not for
\* Windows
program_name ==
    <<99, 111, 100, 101, 97, 103, 101, 110, 116, 45, 119, 114, 97, 112, 112,
      101, 114>>

\* Path::join
join(dir, name) == dir \o <<47>> \o name

\* the directories of the host: the two entries of PATH ("/p1", "/p2"), the
\* home directory ("/h"), env!("CARGO_MANIFEST_DIR") ("/m"), and the names
\* "bin" and ".claude"
Dir ==
    [ path1 |-> <<47, 112, 49>>,
      path2 |-> <<47, 112, 50>>,
      home |-> <<47, 104>>,
      manifest |-> <<47, 109>>,
      bin |-> <<98, 105, 110>>,
      dot_claude |-> <<46, 99, 108, 97, 117, 100, 101>> ]

\* the path the configuration names, "/x/cw"
ExplicitPath == <<47, 120, 47, 99, 119>>

\* the places the wrapper is looked for, after the configured path
Candidate ==
    [ path1 |-> join(Dir.path1, program_name),
      path2 |-> join(Dir.path2, program_name),
      home_bin |-> join(join(Dir.home, Dir.bin), program_name),
      home_claude |->
         join(join(join(Dir.home, Dir.dot_claude), Dir.bin), program_name),
      dev |-> join(join(Dir.manifest, Dir.bin), program_name) ]

CandidatePaths ==
    { Candidate.path1, Candidate.path2, Candidate.home_bin, Candidate.home_claude,
      Candidate.dev, ExplicitPath }

\* Path::exists, Path::is_file
exists(fs, p) == fs[p] # "absent"
is_file(fs, p) == fs[p] \in { "file", "exec" }

\* a check that asks for a file only
is_executable_file_AnyFile(fs, p) == is_file(fs, p)

\* is_executable_file: a file with (mode & 0o111) != 0
is_executable_file(fs, p) == is_file(fs, p) /\ fs[p] = "exec"

\* which_in_path: the first directory of PATH whose candidate is a file;
\* nothing when PATH is not set
RECURSIVE which_in_dirs(_, _, _)
which_in_dirs(fs, dirs, program) ==
    IF dirs = <<>> THEN None
    ELSE IF is_file(fs, join(Head(dirs), program))
         THEN Some(join(Head(dirs), program))
         ELSE which_in_dirs(fs, Tail(dirs), program)

which_in_path(host, program) ==
    IF ~host.path_var.some THEN None
    ELSE which_in_dirs(host.fs, host.path_var.v, program)

\* the error texts of the two resolvers:
\*   "指定的 codeagent-wrapper 路径不存在"
\*   "未找到 codeagent-wrapper。..." of services/ai.rs
\*   "未找到 codeagent-wrapper。..." of tauri/codeagent_commands.rs
\*   "无法获取用户 HOME 目录"
ResolveErr ==
    [ explicit_missing |->
         <<25351, 23450, 30340, 32, 99, 111, 100, 101, 97, 103, 101, 110, 116,
         45, 119, 114, 97, 112, 112, 101, 114, 32, 36335, 24452, 19981, 23384,
         22312>>,
      not_found |->
         <<26410, 25214, 21040, 32, 99, 111, 100, 101, 97, 103, 101, 110, 116,
         45, 119, 114, 97, 112, 112, 101, 114, 12290, 35831, 20808, 23433,
         35013, 32, 109, 121, 99, 108, 97, 117, 100, 101, 65288, 25110, 23558,
         32, 99, 111, 100, 101, 97, 103, 101, 110, 116, 45, 119, 114, 97, 112,
         112, 101, 114, 32, 25918, 20837, 32, 80, 65, 84, 72, 32, 47, 32, 36,
         72, 79, 77, 69, 47, 98, 105, 110, 32, 47, 32, 36, 72, 79, 77, 69, 47,
         46, 99, 108, 97, 117, 100, 101, 47, 98, 105, 110, 65289, 65292, 25110,
         22312, 37197, 32622, 20013, 35774, 32622, 32, 98, 105, 110, 97, 114,
         121, 95, 112, 97, 116, 104, 12290, 10, 10, 24320, 21457, 27169, 24335,
         21487, 36816, 34892, 65306, 112, 110, 112, 109, 32, 102, 101, 116, 99,
         104, 58, 99, 111, 100, 101, 97, 103, 101, 110, 116, 45, 119, 114, 97,
         112, 112, 101, 114>>,
      not_found_command |->
         <<26410, 25214, 21040, 32, 99, 111, 100, 101, 97, 103, 101, 110, 116,
         45, 119, 114, 97, 112, 112, 101, 114, 12290, 35831, 20808, 23433,
         35013, 32, 109, 121, 99, 108, 97, 117, 100, 101, 65288, 25110, 23558,
         32, 99, 111, 100, 101, 97, 103, 101, 110, 116, 45, 119, 114, 97, 112,
         112, 101, 114, 32, 25918, 20837, 32, 80, 65, 84, 72, 32, 47, 32, 36,
         72, 79, 77, 69, 47, 98, 105, 110, 32, 47, 32, 36, 72, 79, 77, 69, 47,
         46, 99, 108, 97, 117, 100, 101, 47, 98, 105, 110, 65289, 65292, 25110,
         22312, 35843, 29992, 26102, 20256, 20837, 32, 98, 105, 110, 97, 114,
         121, 95, 112, 97, 116, 104, 12290>>,
      no_home |->
         <<26080, 27861, 33719, 21462, 29992, 25143, 32, 72, 79, 77, 69, 32,
         30446, 24405>> ]

\* the first of the candidates (in order) that exists
RECURSIVE first_existing(_, _)
first_existing(fs, candidates) ==
    IF candidates = <<>> THEN None
    ELSE IF exists(fs, Head(candidates)) THEN Some(Head(candidates))
    ELSE first_existing(fs, Tail(candidates))

\* the candidates under the home directory
home_candidates(home) ==
    << join(join(home, Dir.bin), program_name),
       join(join(join(home, Dir.dot_claude), Dir.bin), program_name) >>

\* an explicit path that is looked up only after the search has failed
AiService_find_codeagent_wrapper_SearchFirst(host, explicit_path) ==
    LET in_path == which_in_path(host, program_name)
    IN  IF in_path.some THEN Ok(in_path.v)
        ELSE IF explicit_path.some /\ exists(host.fs, explicit_path.v)
        THEN Ok(explicit_path.v)
        ELSE Err(ResolveErr.explicit_missing)

\* AiService::find_codeagent_wrapper
AiService_find_codeagent_wrapper(host, explicit_path) ==
    IF explicit_path.some
    THEN IF exists(host.fs, explicit_path.v) THEN Ok(explicit_path.v)
         ELSE Err(ResolveErr.explicit_missing)
    ELSE LET in_path == which_in_path(host, program_name)
             in_home == IF host.home.some
                        THEN first_existing(host.fs, home_candidates(host.home.v))
                        ELSE None
             dev_candidate == join(join(Dir.manifest, Dir.bin), program_name)
         IN  IF in_path.some THEN Ok(in_path.v)
             ELSE IF in_home.some THEN Ok(in_home.v)
             ELSE IF exists(host.fs, dev_candidate) THEN Ok(dev_candidate)
             ELSE Err(ResolveErr.not_found)

\* find_codeagent_wrapper of tauri/codeagent_commands.rs
find_codeagent_wrapper(host, explicit_path) ==
    IF explicit_path.some
    THEN IF exists(host.fs, explicit_path.v) THEN Ok(explicit_path.v)
         ELSE Err(ResolveErr.explicit_missing)
    ELSE LET in_path == which_in_path(host, program_name)
         IN  IF in_path.some THEN Ok(in_path.v)
             ELSE IF ~host.home.some THEN Err(ResolveErr.no_home)
             ELSE LET in_home == first_existing(host.fs,
                                                home_candidates(host.home.v))
                  IN  IF in_home.some THEN Ok(in_home.v)
                      ELSE Err(ResolveErr.not_found_command)


\* ------------------------------------------------------------------------
\* Process runner (services/ai.rs) and the execute_codeagent_wrapper command
\* ------------------------------------------------------------------------
\* "--backend", "--parallel", "--dangerously-skip-permissions", "resume", "-"
Arg ==
    [ backend |-> <<45, 45, 98, 97, 99, 107, 101, 110, 100>>,
      parallel |-> <<45, 45, 112, 97, 114, 97, 108, 108, 101, 108>>,
      skip_permissions |->
         <<45, 45, 100, 97, 110, 103, 101, 114, 111, 117, 115, 108, 121, 45, 115,
         107, 105, 112, 45, 112, 101, 114, 109, 105, 115, 115, 105, 111, 110,
         115>>,
      resume |-> <<114, 101, 115, 117, 109, 101>>,
      stdin |-> <<45>> ]

\* the error texts of the runner:
\*   "codeagent-wrapper 不是可执行文件: "
\*   "启动 codeagent-wrapper 失败: ", " (bin="
\*   "写入 codeagent-wrapper stdin 失败: "
\*   "等待 codeagent-wrapper 退出失败: "
\*   "codeagent-wrapper 退出码 ", "。stderr: "
\*   "codeagent-wrapper 未返回有效消息。stderr: "
RunErr ==
    [ not_executable |->
         <<99, 111, 100, 101, 97, 103, 101, 110, 116, 45, 119, 114, 97, 112, 112,
         101, 114, 32, 19981, 26159, 21487, 25191, 34892, 25991, 20214, 58, 32>>,
      spawn_head |->
         <<21551, 21160, 32, 99, 111, 100, 101, 97, 103, 101, 110, 116, 45, 119,
         114, 97, 112, 112, 101, 114, 32, 22833, 36133, 58, 32>>,
      spawn_bin |-> <<32, 40, 98, 105, 110, 61>>,
      stdin |->
         <<20889, 20837, 32, 99, 111, 100, 101, 97, 103, 101, 110, 116, 45, 119,
         114, 97, 112, 112, 101, 114, 32, 115, 116, 100, 105, 110, 32, 22833,
         36133, 58, 32>>,
      wait |->
         <<31561, 24453, 32, 99, 111, 100, 101, 97, 103, 101, 110, 116, 45, 119,
         114, 97, 112, 112, 101, 114, 32, 36864, 20986, 22833, 36133, 58, 32>>,
      exit_head |->
         <<99, 111, 100, 101, 97, 103, 101, 110, 116, 45, 119, 114, 97, 112, 112,
         101, 114, 32, 36864, 20986, 30721, 32>>,
      exit_stderr |-> <<12290, 115, 116, 100, 101, 114, 114, 58, 32>>,
      empty_head |->
         <<99, 111, 100, 101, 97, 103, 101, 110, 116, 45, 119, 114, 97, 112, 112,
         101, 114, 32, 26410, 36820, 22238, 26377, 25928, 28040, 24687, 12290,
         115, 116, 100, 101, 114, 114, 58, 32>> ]

\* the text of an io::Error
OsError ==
    <<111, 115, 32, 101, 114, 114, 111, 114>>

\* the budgets of the tails: tail_snippet(&stderr, 4000) and
\* tail_snippet(&stdout, 1000)
FailureTailChars == 4000
DebugTailChars == 1000

\* u64::to_string, u32::to_string: the decimal digits
RECURSIVE digits(_)
digits(n) ==
    IF n < 10 THEN <<48 + n>> ELSE digits(n \div 10) \o <<48 + (n % 10)>>

\* i32::to_string
to_string(n) == IF n < 0 THEN <<45>> \o digits(0 - n) ELSE digits(n)

\* str::eq_ignore_ascii_case
eq_ignore_ascii_case(a, b) ==
    /\ Len(a) = Len(b)
    /\ \A i \in 1..Len(a) : LowerChar(a[i]) = LowerChar(b[i])

\* the resume pair: `resume <id>` for an identifier that is not blank
ResumeArgs(spec) ==
    IF spec.resume_session_id.some /\ trim(spec.resume_session_id.v) # <<>>
    THEN <<Arg.resume, trim(spec.resume_session_id.v)>>
    ELSE <<>>

\* a tail of the vector that does not look at the mode
PositionalArgs_AlsoInParallel(spec) ==
    ResumeArgs(spec) \o <<Arg.stdin, spec.workdir>>

\* the tail of the vector: nothing in parallel mode, else the resume pair,
\* "-" and the working directory
PositionalArgs(spec) ==
    IF spec.parallel THEN <<>>
    ELSE ResumeArgs(spec) \o <<Arg.stdin, spec.workdir>>

\* the argument vector of run_codeagent_wrapper
RunArgs(spec) ==
    LET backend == IF trim(spec.backend) # <<>>
                   THEN <<Arg.backend, trim(spec.backend)>> ELSE <<>>
        parallel == IF spec.parallel THEN <<Arg.parallel>> ELSE <<>>
        skip == IF spec.skip_permissions THEN <<Arg.skip_permissions>> ELSE <<>>
    IN  backend \o parallel \o skip \o PositionalArgs(spec)

\* a CODEX_MODEL that is set for every backend
RunEnvCodexModel_AnyBackend(spec) ==
    IF spec.codex_model.some /\ trim(spec.codex_model.v) # <<>>
    THEN { <<"CODEX_MODEL", trim(spec.codex_model.v)>> }
    ELSE {}

\* the CODEX_MODEL of the child's environment
RunEnvCodexModel(spec) ==
    IF /\ eq_ignore_ascii_case(trim(spec.backend), BackendName.codex)
       /\ spec.codex_model.some
       /\ trim(spec.codex_model.v) # <<>>
    THEN { <<"CODEX_MODEL", trim(spec.codex_model.v)>> }
    ELSE {}

\* the variables run_codeagent_wrapper adds to the child's environment
\* (<<49>> is "1")
RunEnv(spec) ==
    (IF spec.timeout_ms.some
     THEN { <<"CODEX_TIMEOUT", to_string(spec.timeout_ms.v)>> } ELSE {})
    \cup (IF spec.skip_permissions
          THEN { <<"CODEAGENT_SKIP_PERMISSIONS", <<49>>>> } ELSE {})
    \cup (IF spec.max_parallel_workers.some
          THEN { <<"CODEAGENT_MAX_PARALLEL_WORKERS",
                   to_string(spec.max_parallel_workers.v)>> }
          ELSE {})
    \cup RunEnvCodexModel(spec)

\* String::truncate(new_len): it panics when new_len is inside a scalar
\* value
truncate(s, new_len) ==
    IF new_len >= ByteLen(s) THEN Ok(s)
    ELSE IF IsCharBoundary(s, new_len) THEN Ok(SliceTo(s, new_len))
    ELSE Panic

\* tail_snippet (<<8230>> is "…", three bytes of UTF-8)
tail_snippet(s, max_chars) ==
    IF max_chars = 0 THEN Ok(<<>>)
    ELSE LET normalized == replace_crlf(s)
             out == IF Len(normalized) <= max_chars THEN normalized
                    ELSE <<8230>>
                             \o SubSeq(normalized, Len(normalized) - max_chars,
                                       Len(normalized))
         IN  IF ByteLen(out) > max_chars + 2
             THEN truncate(out, max_chars + 2)
             ELSE Ok(out)

\* ExitStatus::code().unwrap_or(-1): a child ended by a signal has no code
exit_code_of(status) == IF status.some THEN status.v ELSE 0 - 1

\* run_codeagent_wrapper from the end of wait_with_output on: result is
\* what it returns, parsed whether the stdout went through the parser. The
\* error of a child that has failed holds all of its stderr, trimmed.
AfterWait(debug_enabled, status, stdout_text, stderr_text) ==
    LET exit_code == exit_code_of(status)
        stderr_tail == tail_snippet(stderr_text, FailureTailChars)
        stdout_tail == tail_snippet(stdout_text, FailureTailChars)
        p == parse_codeagent_stdout(stdout_text)
        debug_tail == IF debug_enabled
                      THEN tail_snippet(stdout_text, DebugTailChars)
                      ELSE Ok(<<>>)
    IN  IF exit_code # 0
        THEN IF stderr_tail.tag = "Panic" \/ stdout_tail.tag = "Panic"
             THEN [result |-> Panic, parsed |-> FALSE]
             ELSE [result |-> Err(RunErr.exit_head \o to_string(exit_code)
                                      \o RunErr.exit_stderr
                                      \o trim(stderr_text)),
                   parsed |-> FALSE]
        ELSE IF debug_tail.tag = "Panic"
             THEN [result |-> Panic, parsed |-> TRUE]
        ELSE IF trim(p.message) = <<>>
             THEN [result |-> Err(RunErr.empty_head \o trim(stderr_text)),
                   parsed |-> TRUE]
        ELSE [result |-> Ok([message |-> p.message,
                             session_id |-> p.session_id,
                             raw_stdout |-> stdout_text,
                             raw_stderr |-> stderr_text,
                             exit_code |-> exit_code]),
              parsed |-> TRUE]


VARIABLES
    host,        \* the file system, PATH, the home directory, the log level
    run_in,      \* the call under consideration: entry point, CodeagentRunSpec
                 \* and what the child will do
    run_pc,      \* "idle", "spawned", "written", "returned"
    child,       \* the subprocess as the runner made it
    run_parsed,  \* the stdout was handed to parse_codeagent_stdout
    run_result   \* what the call returned (or that it panicked)

runVars == <<host, run_in, run_pc, child, run_parsed, run_result>>

NoChild == [spawned |-> FALSE, bin |-> <<>>, args |-> <<>>, env |-> {},
            stdin |-> <<>>, stdin_closed |-> FALSE, reaped |-> FALSE]

\* texts of the inputs
Text ==
    [ workdir |-> <<46>>,
      task |->
         <<108, 105, 115, 116, 32, 102, 105, 108, 101, 115>>,
      session |-> <<115, 49>>,
      model_hint |-> <<111, 51>>,
      done |-> <<68, 111, 110, 101, 46>>,
      abc123 |-> <<97, 98, 99, 49, 50, 51>>,
      permission_denied |->
         <<112, 101, 114, 109, 105, 115, 115, 105, 111, 110, 32, 100, 101, 110, 105, 101, 100>> ]

\* the CodeagentRunSpec of a call with nothing configured
DefaultRunSpec ==
    [task |-> Text.task, backend |-> BackendName.codex, workdir |-> Text.workdir,
     skip_permissions |-> FALSE, timeout_ms |-> None,
     max_parallel_workers |-> None, binary_path |-> None,
     resume_session_id |-> None, parallel |-> FALSE, codex_model |-> None]

\* every combination of the fields that decide the arguments and the
\* environment. Backend names: the three tags, "", " " and " Codex "; an
\* optional text: absent, "", " ", t and " t "
RunSpecInputs ==
    LET RunBackends ==
            { BackendName.claude, BackendName.gemini, BackendName.codex, <<>>, <<32>>,
              <<32, 67, 111, 100, 101, 120, 32>> }
        OptionalTexts(t) ==
            { None, Some(<<>>), Some(<<32>>), Some(t),
              Some(<<32>> \o t \o <<32>>) }
    IN  [task : { Text.task }, backend : RunBackends,
         workdir : { Text.workdir }, skip_permissions : BOOLEAN,
         timeout_ms : { None, Some(7200000) },
         max_parallel_workers : { None, Some(4) }, binary_path : { None },
         resume_session_id : OptionalTexts(Text.session),
         parallel : BOOLEAN,
         codex_model : OptionalTexts(Text.model_hint)]

\* every file system over the candidate paths (a path is nothing, a
\* directory, a file without an execute bit or a file with one), PATH set or not, the home
\* directory known or not
HostInputs ==
    [fs : [CandidatePaths -> { "absent", "dir", "file", "exec" }],
     path_var : { None, Some(<<Dir.path1, Dir.path2>>) },
     home : { None, Some(Dir.home) },
     debug_enabled : { FALSE }]

\* a host with an executable wrapper in the first directory of PATH
InstalledHost(debug_enabled) ==
    [fs |-> [p \in CandidatePaths |->
                IF p = Candidate.path1 THEN "exec" ELSE "absent"],
     path_var |-> Some(<<Dir.path1, Dir.path2>>),
     home |-> Some(Dir.home), debug_enabled |-> debug_enabled]

DefaultPlan ==
    [status |-> Some(0),
     stdout |-> Text.done \o Marker.rule_before \o <<32>> \o Text.abc123 \o <<10>>,
     stderr |-> <<>>]

\* what a child does: its exit status (none when a signal ended it) and
\* the decoded texts of its stdout and stderr.
\* stdouts: a message with a trailer, nothing, white space, a trailer
\* alone, a message alone, and two texts of more bytes than the budget of
\* the debug tail plus two: a trailer alone with an identifier of 600 'é',
\* and 'a' with 501 'é'.
\* stderrs: nothing, "permission denied", the same inside white space; and,
\* with the default stdout, two beyond the budget of the tails: 4001 'x',
\* and 'a' with 2001 'é'
ChildPlans ==
    LET ChildStatuses == { Some(0), Some(1), Some(127), None }
        ChildStdouts ==
            { Text.done \o Marker.rule_before \o <<32>> \o Text.abc123 \o <<10>>,
              <<>>,
              <<32, 10>>,
              Marker.rule_start \o <<32>> \o Text.abc123 \o <<10>>,
              Text.done,
              Marker.rule_before \o <<32>> \o Rep(233, DebugTailChars \div 2 + 100),
              <<97>> \o Rep(233, DebugTailChars \div 2 + 1) }
        ChildStderrs ==
            { <<>>,
              Text.permission_denied,
              <<32>> \o Text.permission_denied \o <<13, 10>> }
        LongChildStderrs ==
            { Rep(120, FailureTailChars + 1),
              <<97>> \o Rep(233, FailureTailChars \div 2 + 1) }
    IN  [status : ChildStatuses, stdout : ChildStdouts,
         stderr : ChildStderrs]
        \cup [status : ChildStatuses, stdout : { DefaultPlan.stdout },
              stderr : LongChildStderrs]

\* run_codeagent_wrapper up to and including cmd.spawn()
RunSpawn ==
    /\ run_pc = "idle"
    /\ run_in.via = "service"
    /\ LET spec == run_in.spec
           found == AiService_find_codeagent_wrapper(host, spec.binary_path)
       IN  IF found.tag = "Err"
           THEN /\ run_result' = found
                /\ run_pc' = "returned"
                /\ UNCHANGED child
           ELSE IF ~is_executable_file(host.fs, found.v)
           THEN /\ run_result' = Err(RunErr.not_executable \o found.v)
                /\ run_pc' = "returned"
                /\ UNCHANGED child
           ELSE \E spawned \in BOOLEAN :
                   IF spawned
                   THEN /\ child' = [NoChild EXCEPT !.spawned = TRUE,
                                                    !.bin = found.v,
                                                    !.args = RunArgs(spec),
                                                    !.env = RunEnv(spec)]
                        /\ run_pc' = "spawned"
                        /\ UNCHANGED run_result
                   ELSE /\ run_result' = Err(RunErr.spawn_head \o OsError
                                               \o RunErr.spawn_bin \o found.v
                                               \o <<41>>)
                        /\ run_pc' = "returned"
                        /\ UNCHANGED child
    /\ UNCHANGED <<host, run_in, run_parsed>>

\* a runner that keeps the child's stdin open while it waits
RunWriteStdin_LeftOpen ==
    /\ run_pc = "spawned"
    /\ \E written \in BOOLEAN :
          IF written
          THEN /\ child' = [child EXCEPT !.stdin = run_in.spec.task]
               /\ run_pc' = "written"
               /\ UNCHANGED run_result
          ELSE /\ child' = [child EXCEPT !.stdin_closed = TRUE]
               /\ run_result' = Err(RunErr.stdin \o OsError)
               /\ run_pc' = "returned"
    /\ UNCHANGED <<host, run_in, run_parsed>>

\* stdin.write_all(spec.task.as_bytes()).await, and the drop of stdin at
\* the end of the block
RunWriteStdin ==
    /\ run_pc = "spawned"
    /\ \E written \in BOOLEAN :
          IF written
          THEN /\ child' = [child EXCEPT !.stdin = run_in.spec.task,
                                         !.stdin_closed = TRUE]
               /\ run_pc' = "written"
               /\ UNCHANGED run_result
          ELSE /\ child' = [child EXCEPT !.stdin_closed = TRUE]
               /\ run_result' = Err(RunErr.stdin \o OsError)
               /\ run_pc' = "returned"
    /\ UNCHANGED <<host, run_in, run_parsed>>

\* child.wait_with_output().await and the rest of run_codeagent_wrapper
RunWait ==
    /\ run_pc = "written"
    /\ \E waited \in BOOLEAN :
          IF waited
          THEN LET a == AfterWait(host.debug_enabled, run_in.plan.status,
                                  run_in.plan.stdout, run_in.plan.stderr)
               IN  /\ run_result' = a.result
                   /\ run_parsed' = a.parsed
                   /\ child' = [child EXCEPT !.reaped = TRUE]
          ELSE /\ run_result' = Err(RunErr.wait \o OsError)
               /\ UNCHANGED <<run_parsed, child>>
    /\ run_pc' = "returned"
    /\ UNCHANGED <<host, run_in>>

\* execute_codeagent_wrapper: the closure given to spawn_blocking
execute_codeagent_wrapper ==
    /\ run_pc = "idle"
    /\ run_in.via = "command"
    /\ LET found == find_codeagent_wrapper(host, run_in.spec.binary_path)
       IN  IF found.tag = "Err"
           THEN /\ run_result' = found
                /\ UNCHANGED child
           ELSE IF ~is_executable_file(host.fs, found.v)
           THEN /\ run_result' = Err(RunErr.not_executable \o found.v)
                /\ UNCHANGED child
           ELSE \E ran \in BOOLEAN :
                   IF ran
                   THEN /\ child' = [NoChild EXCEPT !.spawned = TRUE,
                                                    !.bin = found.v,
                                                    !.stdin_closed = TRUE,
                                                    !.reaped = TRUE]
                        /\ run_result' =
                               Ok([stdout |-> run_in.plan.stdout,
                                   stderr |-> run_in.plan.stderr,
                                   exit_code |-> exit_code_of(run_in.plan.status)])
                   ELSE /\ run_result' = Err(OsError)
                        /\ UNCHANGED child
    /\ run_pc' = "returned"
    /\ UNCHANGED <<host, run_in, run_parsed>>

\* no call under consideration
RunIdle ==
    /\ host = InstalledHost(FALSE)
    /\ run_in = [via |-> "none", spec |-> DefaultRunSpec, plan |-> DefaultPlan]
    /\ run_pc = "idle"
    /\ child = NoChild
    /\ run_parsed = FALSE
    /\ run_result = Pending

\* some call is about to be made: the default call through either entry
\* point on any host (a path being configured or not), or any
\* CodeagentRunSpec on the installed host, or the default call on the
\* installed host with any child
RunAnyInit ==
    /\ \/ \E h \in HostInputs, v \in { "service", "command" },
             b \in { None, Some(ExplicitPath) } :
             /\ b = None => h.fs[ExplicitPath] = "absent"
             /\ host = h
             /\ run_in = [via |-> v,
                          spec |-> [DefaultRunSpec EXCEPT !.binary_path = b],
                          plan |-> DefaultPlan]
       \/ \E s \in RunSpecInputs :
             /\ host = InstalledHost(FALSE)
             /\ run_in = [via |-> "service", spec |-> s, plan |-> DefaultPlan]
       \/ \E d \in BOOLEAN, p \in ChildPlans :
             /\ host = InstalledHost(d)
             /\ run_in = [via |-> "service", spec |-> DefaultRunSpec,
                          plan |-> p]
    /\ run_pc = "idle"
    /\ child = NoChild
    /\ run_parsed = FALSE
    /\ run_result = Pending

\* ------------------------------------------------------------------------
\* Chat session store (services/chat_session.rs)
\* ------------------------------------------------------------------------
VARIABLES
    sess_dir,    \* the chat-sessions directory exists
    sess_file,   \* the file <dir>/s1.json: absent, empty, or a ChatSession
    sess_clock,  \* Local::now(), counted in readings
    app,         \* per caller of append_message_to_session: its position,
                 \* arguments, locals and what the call returned
    sess_hist    \* history: the calls made, the batches of the calls that
                 \* returned Ok (in that order), whether two calls were ever
                 \* in flight together, the file operations that failed

sessVars == <<sess_dir, sess_file, sess_clock, app, sess_hist>>

\* the threads that call append_message_to_session
Appenders == { 1, 2 }

\* `take(100)` of the preview
PreviewChars == 100

\* the preview of save_session: the first 100 scalar values of the first
\* message, with "..." when there are more; "" without a message
first_message_preview(messages) ==
    IF messages = <<>> THEN <<>>
    ELSE LET content == messages[1].content IN
         IF Len(content) > PreviewChars
         THEN SubSeq(content, 1, PreviewChars) \o <<46, 46, 46>>
         ELSE content

\* load_session_by_id: the file does not exist, it cannot be read
\* (read_ok is the outcome of fs::read_to_string), its text is not a
\* ChatSession, or it is one.  A ChatSession written by serde_json is read
\* back field by field (Strings, Options, a Vec, a usize, a HashMap), so
\* the file is modelled by the value it holds.
load_session_by_id(dir, file, read_ok) ==
    IF ~dir \/ file.kind = "absent" THEN Err("Session not found")
    ELSE IF ~read_ok THEN Err("Failed to read session file")
    ELSE IF file.kind # "json" THEN Err("Failed to parse session JSON")
    ELSE Ok(file.v)

\* the arguments of a call: the number of messages, whether the first one
\* is longer than the preview, its workspace, and the code_cli pair
AppendInputs ==
    { [len |-> 0, long |-> FALSE, workspace_id |-> None,
       code_cli |-> None, code_cli_task_id |-> None],
      [len |-> 1, long |-> FALSE, workspace_id |-> None,
       code_cli |-> Some(BackendName.codex), code_cli_task_id |-> None],
      [len |-> 1, long |-> TRUE, workspace_id |-> Some(<<119>>),
       code_cli |-> None, code_cli_task_id |-> None],
      [len |-> 2, long |-> FALSE, workspace_id |-> Some(<<119>>),
       code_cli |-> Some(BackendName.codex), code_cli_task_id |-> Some(<<116>>)] }

\* the ChatMessages of the n-th call: their ids are n and the position in
\* the batch (role, timestamp, files, model and session_id of a message are
\* carried along untouched and left out)
BatchOf(n, input) ==
    [i \in 1..input.len |->
        [id |-> <<n, i>>,
         content |-> IF input.long THEN Rep(97, PreviewChars + 1)
                     ELSE <<48 + n>>,
         workspace_id |-> input.workspace_id]]

\* the outcomes of a file operation (TRUE: it succeeds) and the count of
\* the failed ones
OutcomesOf(can_fail) ==
    IF can_fail /\ sess_hist.faults < MaxFaults THEN BOOLEAN ELSE { TRUE }

CountFault(hist, ok) ==
    [hist EXCEPT !.faults = IF ok THEN @ ELSE @ + 1]

\* append_message_to_session up to the call of save_session: load the
\* session or, on ANY error of the load, start an empty one; extend it
AppendLoad(p) ==
    /\ app[p].pc = "idle"
    /\ sess_hist.calls < MaxAppends
    /\ \E input \in AppendInputs,
          read_ok \in OutcomesOf(sess_dir /\ sess_file.kind # "absent") :
        LET n == sess_hist.calls + 1
            messages == BatchOf(n, input)
            loaded == load_session_by_id(sess_dir, sess_file, read_ok)
            created == loaded.tag = "Err"
            existing ==
                IF ~created THEN loaded.v
                ELSE [id |-> Text.session,
                      name |-> None,
                      session_id |-> Some(Text.session),
                      workspace_id |->
                          IF messages = <<>> THEN None
                          ELSE messages[1].workspace_id,
                      messages |-> <<>>,
                      created_at |-> sess_clock + 1,
                      updated_at |-> sess_clock + 1,
                      message_count |-> 0,
                      first_message_preview |-> <<>>,
                      code_cli_task_ids |-> {}]
            now == IF created THEN sess_clock + 2 ELSE sess_clock + 1
            session ==
                [existing EXCEPT
                    !.session_id = Some(Text.session),
                    !.messages = @ \o messages,
                    !.message_count = Len(existing.messages \o messages),
                    !.updated_at = now,
                    !.code_cli_task_ids =
                        IF input.code_cli.some /\ input.code_cli_task_id.some
                        THEN { kv \in @ : kv[1] # input.code_cli.v }
                             \cup { <<input.code_cli.v,
                                      input.code_cli_task_id.v>> }
                        ELSE @]
        IN  /\ app' = [app EXCEPT ![p] =
                          [pc |-> "save", batch |-> messages,
                           session |-> session, result |-> Pending]]
            /\ sess_clock' = now
            /\ sess_hist' =
                   [CountFault(sess_hist, read_ok) EXCEPT
                       !.calls = n,
                       !.overlapped =
                           @ \/ \E q \in Appenders \ {p} :
                                    app[q].pc # "idle"]
    /\ UNCHANGED <<sess_dir, sess_file>>

\* save_session up to the ChatSession it is going to write: the directory
\* is made, created_at and session_id are taken from the file when it can
\* be loaded
SaveBuild(p) ==
    /\ app[p].pc = "save"
    /\ \E read_ok \in OutcomesOf(sess_dir /\ sess_file.kind # "absent") :
        LET now == sess_clock + 1
            mine == app[p].session
            on_disk == load_session_by_id(sess_dir, sess_file, read_ok)
            kept == sess_dir /\ sess_file.kind # "absent"
                        /\ on_disk.tag = "Ok"
            session ==
                [id |-> Text.session,
                 name |-> mine.name,
                 session_id |->
                     IF kept /\ on_disk.v.session_id.some
                     THEN on_disk.v.session_id ELSE Some(Text.session),
                 workspace_id |-> mine.workspace_id,
                 messages |-> mine.messages,
                 created_at |-> IF kept THEN on_disk.v.created_at ELSE now,
                 updated_at |-> now,
                 message_count |-> Len(mine.messages),
                 first_message_preview |->
                     first_message_preview(mine.messages),
                 code_cli_task_ids |-> mine.code_cli_task_ids]
        IN  /\ app' = [app EXCEPT ![p].pc = "write", ![p].session = session]
            /\ sess_clock' = now
            /\ sess_hist' = CountFault(sess_hist, read_ok)
    /\ sess_dir' = TRUE
    /\ UNCHANGED sess_file

\* fs::write of the serialised session, and the return of the call.  The
\* write is taken as one step (it truncates, then writes); a write that
\* fails leaves the file as it was or empty.
SaveWrite(p) ==
    /\ app[p].pc = "write"
    /\ \E write_ok \in OutcomesOf(TRUE) :
        /\ IF write_ok
           THEN sess_file' = [kind |-> "json", v |-> app[p].session]
           ELSE \E left \in { sess_file, [kind |-> "empty", v |-> <<>>] } :
                   sess_file' = left
        /\ app' = [app EXCEPT
                      ![p].pc = "idle",
                      ![p].result = IF write_ok THEN Ok(<<>>)
                                    ELSE Err("Failed to write session file")]
        /\ sess_hist' =
               [CountFault(sess_hist, write_ok) EXCEPT
                   !.appended = IF write_ok THEN Append(@, app[p].batch)
                                ELSE @]
    /\ UNCHANGED <<sess_dir, sess_clock>>

\* no session is stored and nobody is appending
SessIdle ==
    /\ sess_dir = FALSE
    /\ sess_file = [kind |-> "absent", v |-> <<>>]
    /\ sess_clock = 0
    /\ app = [p \in Appenders |->
                 [pc |-> "idle", batch |-> <<>>, session |-> <<>>,
                  result |-> Pending]]
    /\ sess_hist = [calls |-> 0, appended |-> <<>>, overlapped |-> FALSE,
                    faults |-> 0]

\* ------------------------------------------------------------------------
\* TerminalService (services/terminal.rs)
\* ------------------------------------------------------------------------
VARIABLES
    term_sessions,  \* the sessions of the service, by id
    term_lock,      \* the thread that holds the Mutex of sessions, if any
    term,           \* per thread, the call it is in and what it returned
    term_calls      \* number of calls made

termVars == <<term_sessions, term_lock, term, term_calls>>

\* the threads that call the service
TermThreads == { 1, 2 }

NoTermCall ==
    [op |-> "none", pc |-> "idle", sid |-> 0, name |-> <<>>, cwd |-> <<>>,
     shell |-> <<>>, result |-> Pending]

\* create_session up to TerminalSession::new: the default name reads
\* session_count(), which takes the lock for the time of the read
create_session(t) ==
    /\ term[t].pc = "idle"
    /\ term_calls < MaxTermCalls
    /\ \E name \in { None, Some(<<120>>) }, cwd \in { None, Some(<<47, 116>>) } :
          /\ name.some \/ term_lock = None
          /\ term' = [term EXCEPT ![t] =
                 [NoTermCall EXCEPT
                     !.op = "create", !.pc = "named",
                     !.name = IF name.some THEN name.v
                              ELSE <<84, 101, 114, 109, 105, 110, 97, 108, 32>>
                                   \o to_string(
                                          Cardinality(DOMAIN term_sessions) + 1),
                     !.cwd = IF cwd.some THEN cwd.v ELSE <<46>>,
                     !.sid = CHOOSE id \in 1..MaxTermCalls :
                                 /\ id \notin DOMAIN term_sessions
                                 /\ \A u \in TermThreads : term[u].sid # id]]
    /\ term_calls' = term_calls + 1
    /\ UNCHANGED <<term_sessions, term_lock>>

\* create_session: lock, insert
CreateInsert(t) ==
    /\ term[t].pc = "named"
    /\ term_lock = None
    /\ term_lock' = Some(t)
    /\ term_sessions' =
           [id \in DOMAIN term_sessions \cup { term[t].sid } |->
               IF id = term[t].sid
               THEN [name |-> term[t].name, cwd |-> term[t].cwd]
               ELSE term_sessions[id]]
    /\ term' = [term EXCEPT ![t].pc = "holding",
                            ![t].result = Ok(term[t].sid)]
    /\ UNCHANGED term_calls

\* kill_session: lock, remove; the session has no process to kill
kill_session(t) ==
    /\ term[t].pc = "idle"
    /\ term_calls < MaxTermCalls
    /\ term_lock = None
    /\ \E id \in 1..MaxTermCalls :
          /\ term_sessions' =
                 [i \in DOMAIN term_sessions \ { id } |-> term_sessions[i]]
          /\ term' = [term EXCEPT ![t] =
                 [NoTermCall EXCEPT !.op = "kill", !.pc = "holding",
                                    !.sid = id, !.result = Ok(<<>>)]]
    /\ term_lock' = Some(t)
    /\ term_calls' = term_calls + 1

\* execute_command: lock, look the session up, clone its cwd; `?` on a
\* session that is not there drops the guard and returns
ExecCopyCwd(t) ==
    /\ term[t].pc = "idle"
    /\ term_calls < MaxTermCalls
    /\ term_lock = None
    /\ \E id \in 1..MaxTermCalls,
          shell \in { <<98, 97, 115, 104>>, <<32, 90, 115, 104, 32>>,
                      <<115, 104>>, <<102, 105, 115, 104>> } :
          IF id \in DOMAIN term_sessions
          THEN /\ term' = [term EXCEPT ![t] =
                      [NoTermCall EXCEPT !.op = "execute", !.pc = "copied",
                                         !.sid = id, !.shell = shell,
                                         !.cwd = term_sessions[id].cwd]]
               /\ term_lock' = Some(t)
          ELSE /\ term' = [term EXCEPT ![t] =
                      [NoTermCall EXCEPT !.op = "execute", !.sid = id,
                                         !.result = Err("Session not found")]]
               /\ UNCHANGED term_lock
    /\ term_calls' = term_calls + 1
    /\ UNCHANGED term_sessions

\* the guard goes out of scope: at the end of the block of execute_command,
\* at the return of create_session and kill_session
TermRelease(t) ==
    /\ term_lock = Some(t)
    /\ term[t].pc \in { "copied", "holding" }
    /\ term_lock' = None
    /\ term' = [term EXCEPT ![t].pc = IF @ = "copied" THEN "unlocked"
                                      ELSE "idle"]
    /\ UNCHANGED <<term_sessions, term_calls>>

\* an execute_command that starts the command inside the block
ExecSpawn_WhileLocked(t) ==
    /\ term[t].pc = "copied"
    /\ term' = [term EXCEPT ![t].pc = "running"]
    /\ UNCHANGED <<term_sessions, term_lock, term_calls>>

\* execute_command: the shell is checked and cmd.output() starts the
\* command (or fails to)
ExecSpawn(t) ==
    /\ term[t].pc = "unlocked"
    /\ LET shell_norm == to_lowercase(trim(term[t].shell)) IN
        IF shell_norm \notin { <<98, 97, 115, 104>>, <<122, 115, 104>>,
                               <<115, 104>> }
        THEN term' = [term EXCEPT ![t].pc = "idle",
                                  ![t].result = Err("Unsupported shell")]
        ELSE \E spawned \in BOOLEAN :
                term' = [term EXCEPT
                            ![t].pc = IF spawned THEN "running" ELSE "idle",
                            ![t].result = IF spawned THEN Pending
                                          ELSE Err(OsError)]
    /\ UNCHANGED <<term_sessions, term_lock, term_calls>>

\* cmd.output() returns when the command has exited: its stdout
ExecOutput(t) ==
    /\ term[t].pc = "running"
    /\ term' = [term EXCEPT ![t].pc = "idle", ![t].result = Ok(<<111, 107>>)]
    /\ UNCHANGED <<term_sessions, term_lock, term_calls>>

\* TerminalService::new(), nobody calling
TermIdle ==
    /\ term_sessions = << >>
    /\ term_lock = None
    /\ term = [t \in TermThreads |-> NoTermCall]
    /\ term_calls = 0

\* ------------------------------------------------------------------------
\* The pipes between run_codeagent_wrapper and its child (services/ai.rs)
\* ------------------------------------------------------------------------
VARIABLES
    pipe_pc,     \* the runner: "idle", "write" (write_all), "wait"
                 \* (wait_with_output), "returned"
    pipe_left,   \* bytes of spec.task that write_all has still to write
    pipe_buf,    \* bytes held by each pipe: stdin, stdout, stderr
    pipe_open,   \* the runner's end of the stdin pipe is open
    pipe_output, \* bytes wait_with_output has read from stdout and stderr
    pipe_child   \* the child: its plan, what it has still to write on each
                 \* stream, whether it has seen the end of its stdin, and
                 \* whether it has exited

pipeVars ==
    <<pipe_pc, pipe_left, pipe_buf, pipe_open, pipe_output, pipe_child>>

\* write_all: some bytes of the task fit into the stdin pipe
PipeWrite ==
    /\ pipe_pc = "write"
    /\ pipe_left > 0
    /\ pipe_buf.stdin < PipeCapacity
    /\ \E k \in 1..pipe_left :
          /\ pipe_buf.stdin + k <= PipeCapacity
          /\ pipe_left' = pipe_left - k
          /\ pipe_buf' = [pipe_buf EXCEPT !.stdin = @ + k]
    /\ UNCHANGED <<pipe_pc, pipe_open, pipe_child, pipe_output>>

\* write_all has returned: the handle is dropped and wait_with_output
\* starts
PipeCloseStdin ==
    /\ pipe_pc = "write"
    /\ pipe_left = 0
    /\ pipe_open' = FALSE
    /\ pipe_pc' = "wait"
    /\ UNCHANGED <<pipe_left, pipe_buf, pipe_child, pipe_output>>

\* wait_with_output reads what the child has written on stdout or stderr
PipeCollect ==
    /\ pipe_pc = "wait"
    /\ \E f \in { "stdout", "stderr" } :
          /\ pipe_buf[f] > 0
          /\ pipe_buf' = [pipe_buf EXCEPT ![f] = 0]
          /\ pipe_output' = [pipe_output EXCEPT ![f] = @ + pipe_buf[f]]
    /\ UNCHANGED <<pipe_pc, pipe_left, pipe_open, pipe_child>>

\* wait_with_output returns: the child has exited and its pipes are read
\* to the end
PipeReturn ==
    /\ pipe_pc = "wait"
    /\ pipe_child.exited
    /\ pipe_buf.stdout = 0 /\ pipe_buf.stderr = 0
    /\ pipe_pc' = "returned"
    /\ UNCHANGED <<pipe_left, pipe_buf, pipe_open, pipe_child, pipe_output>>

\* the child reads what is in its stdin pipe, or finds its end
ChildRead ==
    /\ ~pipe_child.exited /\ ~pipe_child.eof
    /\ pipe_child.plan = "write_first" =>
           pipe_child.stdout = 0 /\ pipe_child.stderr = 0
    /\ IF pipe_buf.stdin > 0
       THEN /\ pipe_buf' = [pipe_buf EXCEPT !.stdin = 0]
            /\ UNCHANGED pipe_child
       ELSE /\ ~pipe_open
            /\ pipe_child' = [pipe_child EXCEPT !.eof = TRUE]
            /\ UNCHANGED pipe_buf
    /\ UNCHANGED <<pipe_pc, pipe_left, pipe_open, pipe_output>>

\* the child writes a byte on stdout or stderr; the write blocks while the
\* pipe is full
ChildWrite ==
    /\ ~pipe_child.exited
    /\ pipe_child.plan = "read_first" => pipe_child.eof
    /\ \E f \in { "stdout", "stderr" } :
          /\ pipe_child[f] > 0
          /\ pipe_buf[f] < PipeCapacity
          /\ pipe_buf' = [pipe_buf EXCEPT ![f] = @ + 1]
          /\ pipe_child' = [pipe_child EXCEPT ![f] = @ - 1]
    /\ UNCHANGED <<pipe_pc, pipe_left, pipe_open, pipe_output>>

\* the child exits when it has read its stdin to the end and written its
\* output
ChildExit ==
    /\ ~pipe_child.exited
    /\ pipe_child.eof
    /\ pipe_child.stdout = 0 /\ pipe_child.stderr = 0
    /\ pipe_child' = [pipe_child EXCEPT !.exited = TRUE]
    /\ UNCHANGED <<pipe_pc, pipe_left, pipe_buf, pipe_open, pipe_output>>

\* no child
PipeIdle ==
    /\ pipe_pc = "idle"
    /\ pipe_left = 0
    /\ pipe_buf = [stdin |-> 0, stdout |-> 0, stderr |-> 0]
    /\ pipe_open = FALSE
    /\ pipe_output = [stdout |-> 0, stderr |-> 0]
    /\ pipe_child = [plan |-> "read_first", stdout |-> 0, stderr |-> 0,
                     eof |-> TRUE, exited |-> TRUE]

\* ------------------------------------------------------------------------
\* tail_snippet on short texts (services/ai.rs)
\* ------------------------------------------------------------------------
VARIABLES
    tail_in,   \* the arguments of tail_snippet: s and max_chars
    tail_out   \* what it returned (or that it panicked)

tailVars == <<tail_in, tail_out>>

\* the function is applied to its arguments
TailSnippet ==
    /\ tail_out = Pending
    /\ tail_out' = tail_snippet(tail_in.s, tail_in.max_chars)
    /\ UNCHANGED tail_in

\* no text under consideration
TailIdle ==
    /\ tail_in = [s |-> <<>>, max_chars |-> 0]
    /\ tail_out = Ok(<<>>)

\* ------------------------------------------------------------------------
\* Specifications
\* ------------------------------------------------------------------------
vars ==
    <<streamVars, aiVars, parseVars, runVars, sessVars, tailVars, termVars,
      pipeVars>>

Init == StreamInit /\ AiInit /\ ParseIdle /\ RunIdle /\ SessIdle /\ TailIdle /\ TermIdle /\ PipeIdle

\* the program: requests are accepted, their tasks build and stream
Next ==
    \/ \E m \in ChatMessages, c \in { None } :
          send_chat_message_streaming(m, c) /\ UNCHANGED <<aiVars, parseVars, runVars, sessVars, tailVars, termVars, pipeVars>>
    \/ \E r \in RequestIds : TaskBuild(r) /\ UNCHANGED <<aiVars, parseVars, runVars, sessVars, tailVars, termVars, pipeVars>>
    \/ \E r \in RequestIds : StreamFlush(r) /\ UNCHANGED <<aiVars, parseVars, runVars, sessVars, tailVars, termVars, pipeVars>>
    \/ \E r \in RequestIds : StreamEnd(r) /\ UNCHANGED <<aiVars, parseVars, runVars, sessVars, tailVars, termVars, pipeVars>>
    \/ \E r \in RequestIds : cancel_streaming(r) /\ UNCHANGED <<aiVars, parseVars, runVars, sessVars, tailVars, termVars, pipeVars>>

Spec == Init /\ [][Next]_vars

EmitterInit == EmitterStreamInit /\ AiInit /\ ParseIdle /\ RunIdle /\ SessIdle /\ TailIdle /\ TermIdle /\ PipeIdle

EmitterNext ==
    \/ \E r \in RequestIds, res \in BuildOutcomes :
          TaskMatch(r, res) /\ UNCHANGED <<aiVars, parseVars, runVars, sessVars, tailVars, termVars, pipeVars>>
    \/ \E r \in RequestIds : StreamFlush(r) /\ UNCHANGED <<aiVars, parseVars, runVars, sessVars, tailVars, termVars, pipeVars>>
    \/ \E r \in RequestIds : StreamEnd(r) /\ UNCHANGED <<aiVars, parseVars, runVars, sessVars, tailVars, termVars, pipeVars>>
    \/ \E r \in RequestIds : cancel_streaming(r) /\ UNCHANGED <<aiVars, parseVars, runVars, sessVars, tailVars, termVars, pipeVars>>

EmitterSpec == EmitterInit /\ [][EmitterNext]_vars

\* the AI service: its configuration changes and messages are sent
BackendNext ==
    \/ \E b \in BackendInputs :
          set_codeagent_config(b) /\ UNCHANGED <<streamVars, parseVars, runVars, sessVars, tailVars, termVars, pipeVars>>
    \/ \E m \in ModelNameInputs :
          set_current_model(m) /\ UNCHANGED <<streamVars, parseVars, runVars, sessVars, tailVars, termVars, pipeVars>>
    \/ \E n \in AddableModels : add_model(n) /\ UNCHANGED <<streamVars, parseVars, runVars, sessVars, tailVars, termVars, pipeVars>>
    \/ \E n \in { <<103, 112, 116, 45, 52>> } \cup AddableModels :
          remove_model(n) /\ UNCHANGED <<streamVars, parseVars, runVars, sessVars, tailVars, termVars, pipeVars>>
    \/ \E h \in HintInputs :
          send_message_with_options(h) /\ UNCHANGED <<streamVars, parseVars, runVars, sessVars, tailVars, termVars, pipeVars>>

BackendSpec == Init /\ [][BackendNext]_vars

\* the trailer parser on every composed stdout
ParseInit == StreamInit /\ AiInit /\ ParseAnyInit /\ RunIdle /\ SessIdle /\ TailIdle /\ TermIdle /\ PipeIdle

ParseNext == ParseStdout /\ UNCHANGED <<streamVars, aiVars, runVars, sessVars, tailVars, termVars, pipeVars>>

ParseSpec == ParseInit /\ [][ParseNext]_vars

\* the process runner and the execute command on every host
RunnerInit == StreamInit /\ AiInit /\ ParseIdle /\ RunAnyInit /\ SessIdle /\ TailIdle /\ TermIdle /\ PipeIdle

RunnerNext ==
    \/ RunSpawn /\ UNCHANGED <<streamVars, aiVars, parseVars, sessVars, tailVars, termVars, pipeVars>>
    \/ RunWriteStdin /\ UNCHANGED <<streamVars, aiVars, parseVars, sessVars, tailVars, termVars, pipeVars>>
    \/ RunWait /\ UNCHANGED <<streamVars, aiVars, parseVars, sessVars, tailVars, termVars, pipeVars>>
    \/ execute_codeagent_wrapper /\ UNCHANGED <<streamVars, aiVars, parseVars, sessVars, tailVars, termVars, pipeVars>>

RunnerSpec == RunnerInit /\ [][RunnerNext]_vars

\* the session store with two threads appending to one session
SessionNext ==
    \/ \E p \in Appenders :
          AppendLoad(p) /\ UNCHANGED <<streamVars, aiVars, parseVars, runVars, tailVars, termVars, pipeVars>>
    \/ \E p \in Appenders :
          SaveBuild(p) /\ UNCHANGED <<streamVars, aiVars, parseVars, runVars, tailVars, termVars, pipeVars>>
    \/ \E p \in Appenders :
          SaveWrite(p) /\ UNCHANGED <<streamVars, aiVars, parseVars, runVars, tailVars, termVars, pipeVars>>

SessionSpec == Init /\ [][SessionNext]_vars

\* tail_snippet on every text of up to MaxTailLen of 'a', 'b', U+00E9, "\n" and "\r", with
\* every budget from 1 to MaxTailBudget
TailInit ==
    /\ StreamInit /\ AiInit /\ ParseIdle /\ RunIdle /\ SessIdle
    /\ TermIdle /\ PipeIdle
    /\ tail_in \in [s : UNION { [1..n -> {97, 98, 233, 10, 13}] :
                                    n \in 0..MaxTailLen },
                     max_chars : 1..MaxTailBudget]
    /\ tail_out = Pending

TailNext ==
    TailSnippet
        /\ UNCHANGED <<streamVars, aiVars, parseVars, runVars, sessVars, termVars, pipeVars>>

TailSpec == TailInit /\ [][TailNext]_vars

\* the terminal service with two threads calling it
TerminalNext ==
    \/ \E t \in TermThreads : create_session(t) /\ UNCHANGED <<streamVars, aiVars, parseVars, runVars, sessVars, tailVars, pipeVars>>
    \/ \E t \in TermThreads : CreateInsert(t) /\ UNCHANGED <<streamVars, aiVars, parseVars, runVars, sessVars, tailVars, pipeVars>>
    \/ \E t \in TermThreads : kill_session(t) /\ UNCHANGED <<streamVars, aiVars, parseVars, runVars, sessVars, tailVars, pipeVars>>
    \/ \E t \in TermThreads : ExecCopyCwd(t) /\ UNCHANGED <<streamVars, aiVars, parseVars, runVars, sessVars, tailVars, pipeVars>>
    \/ \E t \in TermThreads : TermRelease(t) /\ UNCHANGED <<streamVars, aiVars, parseVars, runVars, sessVars, tailVars, pipeVars>>
    \/ \E t \in TermThreads : ExecSpawn(t) /\ UNCHANGED <<streamVars, aiVars, parseVars, runVars, sessVars, tailVars, pipeVars>>
    \/ \E t \in TermThreads : ExecOutput(t) /\ UNCHANGED <<streamVars, aiVars, parseVars, runVars, sessVars, tailVars, pipeVars>>

TerminalSpec == Init /\ [][TerminalNext]_vars

\* the child has just been spawned with its three pipes; each child reads
\* its stdin to the end, writes its output and exits, before, after or
\* while it reads
PipeInit ==
    /\ StreamInit /\ AiInit /\ ParseIdle /\ RunIdle /\ SessIdle /\ TailIdle
    /\ TermIdle
    /\ pipe_pc = "write"
    /\ pipe_left \in 0..MaxTaskBytes
    /\ pipe_buf = [stdin |-> 0, stdout |-> 0, stderr |-> 0]
    /\ pipe_open = TRUE
    /\ pipe_output = [stdout |-> 0, stderr |-> 0]
    /\ pipe_child \in
           [plan : { "read_first", "write_first", "interleaved" },
            stdout : 0..MaxOutBytes, stderr : 0..MaxOutBytes,
            eof : { FALSE }, exited : { FALSE }]

PipeNext ==
    \/ PipeWrite /\ UNCHANGED <<streamVars, aiVars, parseVars, runVars, sessVars, tailVars, termVars>>
    \/ PipeCloseStdin /\ UNCHANGED <<streamVars, aiVars, parseVars, runVars, sessVars, tailVars, termVars>>
    \/ PipeCollect /\ UNCHANGED <<streamVars, aiVars, parseVars, runVars, sessVars, tailVars, termVars>>
    \/ PipeReturn /\ UNCHANGED <<streamVars, aiVars, parseVars, runVars, sessVars, tailVars, termVars>>
    \/ ChildRead /\ UNCHANGED <<streamVars, aiVars, parseVars, runVars, sessVars, tailVars, termVars>>
    \/ ChildWrite /\ UNCHANGED <<streamVars, aiVars, parseVars, runVars, sessVars, tailVars, termVars>>
    \/ ChildExit /\ UNCHANGED <<streamVars, aiVars, parseVars, runVars, sessVars, tailVars, termVars>>

\* the runner and its child around the three pipes; the runtime polls the
\* runner's future and the system schedules the child, so a step that can
\* be taken is taken
PipeSpec == PipeInit /\ [][PipeNext]_vars /\ WF_vars(PipeNext)

\* ------------------------------------------------------------------------
\* Properties of the streaming command
\* ------------------------------------------------------------------------
\* the task of r has ended, however it ended
Ended(r) == pc[r] \in {"done", "errored", "panicked", "aborted"}

\* the sink accepted every event the task of r emitted
SinkAcceptedAll(r) == \A i \in 1..Len(emitted[r]) : emitted[r][i].delivered

\* positions of the events of r that carry is_final = true
FinalPositions(r) == { i \in 1..Len(emitted[r]) : emitted[r][i].is_final }

RECURSIVE ConcatDeltas(_, _)
ConcatDeltas(log, k) ==
    IF k = 0 THEN <<>> ELSE ConcatDeltas(log, k - 1) \o log[k].response

IsPrefix(p, s) == Len(p) <= Len(s) /\ SubSeq(s, 1, Len(p)) = p

CeilDiv(n, d) == (n + d - 1) \div d

Max(a, b) == IF a > b THEN a ELSE b

\* C1: for every request whose task has ended (the sink having accepted its
\* events), the events are the consecutive cuts of the message in order,
\* exactly one event is final, and the final event is the last one.
C1_OneFinalEventLast ==
    \A r \in RequestIds :
        (Ended(r) /\ SinkAcceptedAll(r)) =>
            /\ IsPrefix(ConcatDeltas(emitted[r], Len(emitted[r])), chars(r))
               \/ pc[r] = "errored"
            /\ Cardinality(FinalPositions(r)) = 1
            /\ FinalPositions(r) = {Len(emitted[r])}

\* C2: a streamed message of N scalar values gives exactly
\* max(1, ceil(N / 32)) events once the loop has run to its end.
C2_EventCountByScalarValues ==
    \A r \in RequestIds :
        (pc[r] = "done" /\ SinkAcceptedAll(r)) =>
            Len(emitted[r]) = Max(1, CeilDiv(Len(chars(r)), FlushThreshold))

\* C3: when the loop has run to its end, the request was not cancelled and
\* the sink accepted every event, the deltas concatenated in emission order
\* are the message.
C3_DeltasReconstructMessage ==
    \A r \in RequestIds :
        (pc[r] = "done" /\ SinkAcceptedAll(r) /\ r \notin cancel_requested) =>
            ConcatDeltas(emitted[r], Len(emitted[r])) = chars(r)

\* C3 witness: a message with multi-byte scalar values was streamed to its
\* end in three or more accepted events.
C3_Witness ==
    \E r \in RequestIds :
        /\ pc[r] = "done" /\ SinkAcceptedAll(r) /\ r \notin cancel_requested
        /\ Len(emitted[r]) >= 3
        /\ \E i \in 1..Len(chars(r)) : chars(r)[i] > 127

\* C4: once cancellation of a request has been asked for, no further event
\* is emitted for it.
C4_NoEventAfterCancel ==
    [][\A r \in RequestIds :
          r \in cancel_requested => emitted'[r] = emitted[r]]_vars

\* C5: a request that was not cancelled and whose events the sink accepted
\* never ends without exactly one final event.
C5_EndedHasFinalEvent ==
    \A r \in RequestIds :
        (Ended(r) /\ SinkAcceptedAll(r) /\ r \notin cancel_requested) =>
            Cardinality(FinalPositions(r)) = 1

C7_RegistryHoldsInFlightTasks ==
    \A r \in RequestIds :
        (pc[r] \in {"spawned", "streaming"}) <=> (r \in streaming_tasks)

\* ------------------------------------------------------------------------
\* Properties of the backend selection
\* ------------------------------------------------------------------------
KnownBackends == {BackendName.claude, BackendName.gemini, BackendName.codex}

\* s mentions the name, compared letter by letter without regard to case
MentionsCI(s, name) ==
    \E i \in 1..(Len(s) - Len(name) + 1) :
        \A j \in 1..Len(name) : LowerChar(s[i + j - 1]) = name[j]

\* the known names a hint mentions
HintNames(h) == IF h.some THEN { n \in KnownBackends : MentionsCI(h.v, n) } ELSE {}

\* the backend the model name stands for
ModelBackend(cur) ==
    IF cur.some /\ MentionsCI(cur.v, BackendName.claude) THEN BackendName.claude
    ELSE IF cur.some /\ MentionsCI(cur.v, BackendName.gemini) THEN BackendName.gemini
    ELSE BackendName.codex

\* C8: whatever the configured backend, the hint and the model name are, the
\* backend handed to the Process Runner is one of codex, claude, gemini, and
\* it is codex when no backend is configured and neither the hint nor the
\* model name mentions a known name.
C8_BackendIsKnown ==
    last_call.called =>
        /\ last_call.backend \in KnownBackends
        /\ (/\ ~last_call.explicit.some
            /\ HintNames(last_call.hint) = {}
            /\ HintNames(last_call.model) = {}) => last_call.backend = BackendName.codex

WithoutTrailingDashes(s) ==
    LET keep == { k \in 0..Len(s) : k = 0 \/ s[k] # 45 }
    IN  SubSeq(s, 1, CHOOSE k \in keep : \A j \in keep : j <= k)

\* s without the ':' at its start
WithoutLeadingColons(s) ==
    LET from == { k \in 1..(Len(s) + 1) : k = Len(s) + 1 \/ s[k] # 58 }
    IN  SubSeq(s, CHOOSE k \in from : \A j \in from : k <= j, Len(s))

\* the normalized message part ends with a "---" line, so that a bare key
\* after it makes the stricter marker
EndsWithDashLine(m) ==
    Len(m) >= 4 /\ SubSeq(m, Len(m) - 3, Len(m)) = <<45, 45, 45, 10>>

\* t is a token: not empty, without white space
IsToken(t) == t # <<>> /\ \A i \in 1..Len(t) : ~IsWhitespace(t[i])

WithoutCrBeforeLf(s) ==
    LET keep == { i \in 1..Len(s) :
                    ~(s[i] = 13 /\ i < Len(s) /\ s[i + 1] = 10) }
        nth(j) == CHOOSE i \in keep :
                      Cardinality({ k \in keep : k <= i }) = j
    IN  [j \in 1..Cardinality(keep) |-> s[nth(j)]]

\* s from its first to its last scalar value that is not white space
Trimmed(s) ==
    LET solid == { i \in 1..Len(s) : ~IsWhitespace(s[i]) }
    IN  IF solid = {} THEN <<>>
        ELSE SubSeq(s, CHOOSE i \in solid : \A j \in solid : i <= j,
                       CHOOSE i \in solid : \A j \in solid : j <= i)

\* C11: for every stdout in which 'SESSION_ID:' does not occur, parse
\* returns the whole line-ending-normalized text, trimmed, as the message
\* and no identifier.
C11_NoMarkerWholeText ==
    (parse_out.done /\ Occurrences(stdout, Marker.bare) = {}) =>
        /\ parse_out.message = Trimmed(WithoutCrBeforeLf(stdout))
        /\ parse_out.session_id = None

\* C11 witness: a stdout without the key, holding a "\r\n" and white space
\* at an end, was parsed into a message that is not empty.
C11_Witness ==
    /\ parse_out.done
    /\ Occurrences(stdout, Marker.bare) = {}
    /\ Occurrences(stdout, <<13, 10>>) # {}
    /\ stdout # <<>> /\ IsWhitespace(stdout[Len(stdout)])
    /\ parse_out.message # <<>>
    /\ ~parse_out.session_id.some

\* the strictest marker form that occurs in the normalized text n (0: none)
StrictestForm(n) ==
    IF Occurrences(n, Marker.rule_before) # {} THEN 1
    ELSE IF Occurrences(n, Marker.rule_start) # {} THEN 2
    ELSE IF Occurrences(n, Marker.bare) # {} THEN 3
    ELSE 0

MarkerOfForm(f) == IF f = 1 THEN Marker.rule_before ELSE IF f = 2 THEN Marker.rule_start ELSE Marker.bare

\* the position of the last occurrence of pat in n
LastOccurrence(n, pat) ==
    CHOOSE i \in Occurrences(n, pat) : \A j \in Occurrences(n, pat) : j <= i

\* C12: when a marker occurs in the stdout, parse splits at the last
\* occurrence of the strictest form that occurs anywhere in the normalized
\* text: the message is made of all the text before that occurrence
\* (earlier markers included) and the identifier is read from the line that
\* follows it.
C12_SplitAtLastStrictest ==
    LET n == replace_crlf(stdout)
        f == StrictestForm(n)
        m == MarkerOfForm(f)
        p == LastOccurrence(n, m)
        before == SubSeq(n, 1, p - 1)
        tail == SubSeq(n, p + Len(m), Len(n))
    IN  (parse_out.done /\ f # 0) =>
            /\ parse_out.message =
                   IF f = 3 THEN Trimmed(WithoutTrailingDashes(before))
                   ELSE Trimmed(before)
            /\ parse_out.session_id = session_id_after(tail, f # 3)

\* C12 witness: "a\n---\nSESSION_ID:abc123\n\n---\nSESSION_ID:b7" was split
\* at the second marker: the first one is inside the message.
C12_Witness ==
    /\ parse_out.done
    /\ stdout = <<97>> \o Marker.rule_before \o <<97, 98, 99, 49, 50, 51, 10>>
                    \o Marker.rule_before \o <<98, 55>>
    /\ parse_out.message = <<97>> \o Marker.rule_before \o <<97, 98, 99, 49, 50, 51>>
    /\ parse_out.session_id = Some(<<98, 55>>)

\* what follows the marker found on its line: the normalized text after
\* the last occurrence of the strictest form, up to the end of that line
KeyLineRemainder(n) ==
    LET m == MarkerOfForm(StrictestForm(n))
        from == LastOccurrence(n, m) + Len(m)
        ends == { i \in from..Len(n) : n[i] = 10 }
        to == IF ends = {} THEN Len(n)
              ELSE (CHOOSE i \in ends : \A j \in ends : i <= j) - 1
    IN  SubSeq(n, from, to)

\* the first run of scalar values of s that are not white space
FirstToken(s) ==
    LET solid == { i \in 1..Len(s) : ~IsWhitespace(s[i]) }
        first == CHOOSE i \in solid : \A j \in solid : i <= j
        stops == { i \in first..Len(s) : IsWhitespace(s[i]) }
        last == IF stops = {} THEN Len(s)
                ELSE (CHOOSE i \in stops : \A j \in stops : i <= j) - 1
    IN  IF solid = {} THEN <<>> ELSE SubSeq(s, first, last)

\* C26: when a marker is found, the identifier is the first token of what
\* follows the key on its line, and there is no identifier exactly when
\* that text is blank.
C26_IdentifierIsFirstToken ==
    LET n == WithoutCrBeforeLf(stdout)
    IN  (parse_out.done /\ parse_in.form2 = 0 /\ StrictestForm(n) # 0) =>
            LET token == FirstToken(KeyLineRemainder(n))
            IN  /\ parse_out.session_id.some <=> token # <<>>
                /\ parse_out.session_id.some =>
                       /\ parse_out.session_id.v = token
                       /\ IsToken(parse_out.session_id.v)

\* ------------------------------------------------------------------------
\* Properties of the executable resolver
\* ------------------------------------------------------------------------
\* the call has returned the error with text e
ReturnedErr(e) == run_result.tag = "Err" /\ run_result.v = e

\* a call was made and has passed its resolution
Resolved == run_in.via \in { "service", "command" } /\ run_pc # "idle"

\* the candidates of the search, in its order, on the host: the PATH
\* entries when PATH is set, the two home candidates when the home
\* directory is known, the development tree
SearchOrder ==
    (IF host.path_var.some THEN <<Candidate.path1, Candidate.path2>> ELSE <<>>)
    \o (IF host.home.some THEN <<Candidate.home_bin, Candidate.home_claude>>
        ELSE <<>>)
    \o <<Candidate.dev>>

ExistingPositions ==
    { i \in 1..Len(SearchOrder) : host.fs[SearchOrder[i]] # "absent" }

\* the errors that say that no binary was found
NotFoundErrors == { ResolveErr.not_found, ResolveErr.not_found_command, ResolveErr.explicit_missing, ResolveErr.no_home }

\* the call went on with path p: it spawned p or named p in its error
WentOnWith(p) ==
    \/ child.spawned /\ child.bin = p
    \/ ReturnedErr(RunErr.not_executable \o p)
    \/ ReturnedErr(RunErr.spawn_head \o OsError \o RunErr.spawn_bin \o p \o <<41>>)
    \/ run_in.via = "command" /\ ReturnedErr(OsError)

\* C13: a configured path that does not exist makes the resolution fail
\* with its error, through either entry point, whatever the PATH, the home
\* directory and the development tree hold; no child is spawned.
C13_ExplicitMissingFails ==
    (/\ Resolved
     /\ run_in.spec.binary_path.some
     /\ host.fs[run_in.spec.binary_path.v] = "absent") =>
        /\ ReturnedErr(ResolveErr.explicit_missing)
        /\ ~child.spawned

\* C13 witness: the configured path is missing while PATH holds an
\* executable wrapper, and the service call has failed.
C13_Witness ==
    /\ Resolved
    /\ run_in.via = "service"
    /\ run_in.spec.binary_path = Some(ExplicitPath)
    /\ host.fs[ExplicitPath] = "absent"
    /\ host.path_var.some /\ host.fs[Candidate.path1] = "exec"
    /\ ReturnedErr(ResolveErr.explicit_missing)

\* C14: without a configured path the resolver goes on with the first
\* candidate that exists, in the order PATH entries, $HOME/bin,
\* $HOME/.claude/bin, development tree, and reports not-found only when
\* none exists (the development tree being tried also when the home
\* directory is not known).
C14_FirstExistingCandidate ==
    (Resolved /\ ~run_in.spec.binary_path.some) =>
        IF ExistingPositions = {}
        THEN run_result.tag = "Err" /\ run_result.v \in NotFoundErrors
        ELSE WentOnWith(SearchOrder[CHOOSE i \in ExistingPositions :
                                        \A j \in ExistingPositions : i <= j])

\* the path the resolver of the entry point returns on the host
ResolvedPath ==
    IF run_in.via = "service"
    THEN AiService_find_codeagent_wrapper(host, run_in.spec.binary_path)
    ELSE find_codeagent_wrapper(host, run_in.spec.binary_path)

\* C15: when the resolved path is a directory or a file without an execute
\* bit, the call fails with the not-executable error, which is none of the
\* not-found errors, and no child is spawned.
C15_NotExecutableIsDistinct ==
    (/\ Resolved
     /\ ResolvedPath.tag = "Ok"
     /\ host.fs[ResolvedPath.v] \in { "dir", "file" }) =>
        /\ ReturnedErr(RunErr.not_executable \o ResolvedPath.v)
        /\ run_result.v \notin NotFoundErrors
        /\ \A e \in NotFoundErrors : ~IsPrefix(RunErr.not_executable, e)
        /\ ~child.spawned

\* C15 witness: the configured path is a file without an execute bit and
\* the service call has failed without a child.
C15_Witness ==
    /\ Resolved
    /\ run_in.via = "service"
    /\ run_in.spec.binary_path = Some(ExplicitPath)
    /\ host.fs[ExplicitPath] = "file"
    /\ ReturnedErr(RunErr.not_executable \o ExplicitPath)
    /\ ~child.spawned

\* ------------------------------------------------------------------------
\* Properties of the process runner
\* ------------------------------------------------------------------------
\* the service has spawned its child
ServiceSpawned == run_in.via = "service" /\ child.spawned

\* C16: the argument vector is `--backend <name>` (name not blank), then
\* `--parallel` (parallel mode), then the permission-skip flag (requested),
\* then, outside parallel mode only, `resume <id>` (id not blank), "-" and
\* the working directory.
C16_ArgumentOrder ==
    ServiceSpawned =>
        LET spec == run_in.spec
            name == Trimmed(spec.backend)
            id == IF spec.resume_session_id.some
                  THEN Trimmed(spec.resume_session_id.v) ELSE <<>>
        IN  child.args =
                (IF name # <<>> THEN <<Arg.backend, name>> ELSE <<>>)
                \o (IF spec.parallel THEN <<Arg.parallel>> ELSE <<>>)
                \o (IF spec.skip_permissions THEN <<Arg.skip_permissions>>
                    ELSE <<>>)
                \o (IF spec.parallel THEN <<>>
                    ELSE (IF id # <<>> THEN <<Arg.resume, id>> ELSE <<>>)
                         \o <<Arg.stdin, spec.workdir>>)

\* C16 witness: a parallel call with backend claude, the skip flag and the
\* continuation id "s1" spawned its child with three flags and no more.
C16_Witness ==
    /\ ServiceSpawned
    /\ run_in.spec.parallel
    /\ run_in.spec.resume_session_id = Some(Text.session)
    /\ child.args = <<Arg.backend, BackendName.claude, Arg.parallel, Arg.skip_permissions>>

\* the child's environment holds CODEX_MODEL
HasCodexModel == \E kv \in child.env : kv[1] = "CODEX_MODEL"

\* C17: CODEX_MODEL is in the child's environment only when the backend is
\* codex (its name compared without surrounding white space and without
\* regard to case) and the model hint is not blank; with backend claude or
\* gemini it is never there.
C17_ModelHintOnlyForCodex ==
    ServiceSpawned =>
        /\ HasCodexModel =>
              /\ to_lowercase(Trimmed(run_in.spec.backend)) = BackendName.codex
              /\ run_in.spec.codex_model.some
              /\ Trimmed(run_in.spec.codex_model.v) # <<>>
        /\ run_in.spec.backend \in { BackendName.claude, BackendName.gemini } => ~HasCodexModel

\* C17 witness: backend claude with the model hint "o3": the child was
\* spawned without CODEX_MODEL.
C17_Witness ==
    /\ ServiceSpawned
    /\ run_in.spec.backend = BackendName.claude
    /\ run_in.spec.codex_model = Some(Text.model_hint)
    /\ run_in.spec.timeout_ms.some
    /\ ~HasCodexModel
    /\ \E kv \in child.env : kv[1] = "CODEX_TIMEOUT"

\* the service call has returned after its child was waited for
ServiceReaped ==
    run_in.via = "service" /\ run_pc = "returned" /\ child.reaped

\* the exit code of the child
PlanExitCode == IF run_in.plan.status.some THEN run_in.plan.status.v ELSE 0 - 1

\* C18: the runner returns a RunResult only for exit code 0; for every
\* other exit status (-1 when there is no code) it returns an error whose
\* text holds the exit code, and the stdout is not parsed.
C18_NonZeroExitIsError ==
    /\ (run_in.via = "service" /\ run_result.tag = "Ok") => PlanExitCode = 0
    /\ (ServiceReaped /\ PlanExitCode # 0) =>
          /\ run_result.tag = "Err"
          /\ contains(run_result.v, to_string(PlanExitCode))
          /\ ~run_parsed

\* C19: the error of a failed child holds no more diagnostic text than two
\* tails of the budget (each with its truncation mark), and does not hold
\* a stderr that is longer than the budget.
C19_ErrorHoldsBoundedTails ==
    (ServiceReaped /\ PlanExitCode # 0 /\ run_result.tag = "Err") =>
        /\ Len(run_result.v) <=
               Len(RunErr.exit_head) + Len(to_string(PlanExitCode))
                   + Len(RunErr.exit_stderr) + (FailureTailChars + 1)
                   + (FailureTailChars + 1)
        /\ Len(run_in.plan.stderr) > FailureTailChars =>
               ~contains(run_result.v, run_in.plan.stderr)

\* C20: when the child exited with code 0 and the parsed message is blank,
\* the runner returns the empty-result error; a RunResult has a message
\* that is not blank.
C20_BlankMessageIsError ==
    /\ (/\ ServiceReaped
        /\ PlanExitCode = 0
        /\ Trimmed(parse_codeagent_stdout(run_in.plan.stdout).message) = <<>>) =>
          ReturnedErr(RunErr.empty_head \o Trimmed(run_in.plan.stderr))
    /\ (run_in.via = "service" /\ run_result.tag = "Ok") =>
          Trimmed(run_result.v.message) # <<>>

\* C21: whatever the child wrote to its stdout and stderr, a call of the
\* runner that has returned has ended with a RunResult or with an error:
\* it has not unwound.
C21_RunnerNeverAborts ==
    (run_in.via = "service" /\ run_pc = "returned") =>
        run_result.tag \in { "Ok", "Err" }

\* C22: the command hands back an id no earlier request has, at a moment
\* when its task has neither a response nor an event; every event of a
\* task carries the id that was handed back for it, so no event carries
\* the id of another request.
C22_EventsCarryReturnedId ==
    /\ [](\A r \in RequestIds :
            \A i \in 1..Len(emitted[r]) :
                /\ r \in returned
                /\ emitted[r][i].request_id = r)
    /\ [][\A r \in returned' \ returned :
              /\ emitted'[r] = <<>>
              /\ result'[r] = Pending
              /\ pc'[r] = "spawned"]_vars

\* C22 witness: two requests in flight at the same time, each with events.
C22_Witness ==
    \E r1, r2 \in RequestIds :
        /\ r1 # r2
        /\ pc[r1] = "streaming" /\ pc[r2] = "streaming"
        /\ Len(emitted[r1]) > 0 /\ Len(emitted[r2]) > 0
        /\ idx[r1] < Len(chars(r1)) /\ idx[r2] < Len(chars(r2))

\* C23: the final event of a stream whose response was built carries a
\* continuation identifier; every other event of the stream carries an
\* empty one.
C23_OnlyFinalCarriesIdentifier ==
    \A r \in RequestIds :
        result[r].tag = "Ok" =>
            \A i \in 1..Len(emitted[r]) :
                LET event == emitted[r][i] IN
                    IF event.is_final
                    THEN "session_id" \in DOMAIN event
                    ELSE "session_id" \in DOMAIN event =>
                             event.session_id = <<>>

\* C25: when the runner starts to wait, and when it has waited, the child
\* has been given the whole task and its stdin is closed; a call that
\* returned the stdin error has not waited for the child.
C25_StdinWrittenAndClosedBeforeWait ==
    /\ (run_in.via = "service" /\ (run_pc = "written" \/ child.reaped)) =>
          /\ child.stdin = run_in.spec.task
          /\ child.stdin_closed
    /\ ReturnedErr(RunErr.stdin \o OsError) =>
          /\ run_pc = "returned"
          /\ ~child.reaped
          /\ ~run_parsed

\* C25 witness: the runner has waited for a child that it gave the task.
C25_Witness ==
    /\ ServiceReaped
    /\ child.stdin = run_in.spec.task /\ child.stdin # <<>>
    /\ child.stdin_closed

\* C27: tail_snippet returns the normalized text itself when it has no
\* more scalar values than the budget; otherwise it returns the mark
\* followed by a suffix of the normalized text of at most the budget, so
\* that the result ends with the last scalar value of the text.
C27_TailKeepsTheEnd ==
    tail_out # Pending =>
        LET n == WithoutCrBeforeLf(tail_in.s)
            max_chars == tail_in.max_chars
        IN  /\ tail_out.tag = "Ok"
            /\ IF Len(n) <= max_chars
               THEN tail_out.v = n
               ELSE \E k \in 1..max_chars :
                       tail_out.v =
                           <<8230>> \o SubSeq(n, Len(n) - k + 1, Len(n))

\* ------------------------------------------------------------------------
\* Properties of the chat session store
\* ------------------------------------------------------------------------
\* the concatenation of the batches, in order
RECURSIVE Flatten(_)
Flatten(batches) ==
    IF batches = <<>> THEN <<>>
    ELSE Head(batches) \o Flatten(Tail(batches))

\* every call made so far has returned
AllReturned == \A p \in Appenders : app[p].pc = "idle"

\* C24: after appends that were made one after the other and that all
\* returned Ok, the stored session holds the batches in call order and
\* message_count is their number.
C24_SequentialAppendsConcatenate ==
    (/\ AllReturned
     /\ ~sess_hist.overlapped
     /\ sess_hist.calls > 0
     /\ Len(sess_hist.appended) = sess_hist.calls) =>
        /\ sess_file.kind = "json"
        /\ sess_file.v.messages = Flatten(sess_hist.appended)
        /\ sess_file.v.message_count = Len(sess_file.v.messages)

\* the messages of a sequence, as a set
MessagesOf(messages) == { messages[i] : i \in 1..Len(messages) }

\* C30: when every call has returned Ok and no file operation has failed,
\* however the calls were interleaved, the stored session holds every
\* message of every batch and message_count is the number of its
\* messages.
C30_ConcurrentAppendsLoseNothing ==
    (/\ AllReturned
     /\ sess_hist.faults = 0
     /\ sess_hist.calls > 0
     /\ Len(sess_hist.appended) = sess_hist.calls) =>
        /\ sess_file.kind = "json"
        /\ MessagesOf(Flatten(sess_hist.appended))
               \subseteq MessagesOf(sess_file.v.messages)
        /\ sess_file.v.message_count = Len(sess_file.v.messages)

\* C28: a thread whose command is running does not hold the lock of
\* sessions, the lock is held only inside the short sections of
\* create_session, kill_session and execute_command, and whoever holds it
\* can let it go at once, whatever commands are running.
C28_NoLockWhileCommandRuns ==
    /\ \A t \in TermThreads :
          term[t].pc \in { "unlocked", "running" } => term_lock # Some(t)
    /\ \A t \in TermThreads :
          term_lock = Some(t) =>
              /\ term[t].pc \in { "copied", "holding" }
              /\ ENABLED TermRelease(t)

\* a command of one thread is running while the other thread holds the lock
\* inside its own call
C28_Witness ==
    \E t, u \in TermThreads :
        /\ t # u
        /\ term[t].pc = "running"
        /\ term_lock = Some(u)
        /\ term[u].op \in { "create", "kill", "execute" }

\* C29: whatever the sizes of the task and of the child's output and
\* whatever the order in which the child reads and writes, the run
\* eventually returns.
C29_RunEventuallyReturns == <>(pipe_pc = "returned")

====
